---------------------------- MODULE Spec2Model ----------------------------
(***************************************************************************)
(* Model of power-instruction-analyzer: the instruction models of          *)
(* src/src/instr_models.rs, the flag records and the instruction registry  *)
(* of src/src/lib.rs.                                                      *)
(*                                                                         *)
(* Register widths.  TLC's integers are 32 bits wide, so the machine       *)
(* widths are scaled by one factor: the Rust type u32/i32 is modelled with *)
(* B32 = WordBits bits, u64/i64 with B64 = 2*WordBits bits and u128/i128   *)
(* with B128 = 4*WordBits bits.  Every cast, shift, wrap and range test is *)
(* written against these widths exactly where the source has it, so        *)
(* i64::min_value() is -(2^(B64-1)), `x as i32` keeps the low B32 bits,    *)
(* and so on.                                                              *)
(*                                                                         *)
(* Option<T> is the sequence <<>> (None) or <<v>> (Some(v)).               *)
(* Result<T, MissingInstructionInput> is a record [err, val, panic]:       *)
(* Ok(v) has val = <<v>>, Err(reg) has err = <<reg>>; panic marks a Rust   *)
(* panic (integer overflow trap, division trap, failed expect()).          *)
(***************************************************************************)
EXTENDS Integers, Sequences, FiniteSets, TLC

VARIABLES instr, inputs, result

vars == <<instr, inputs, result>>

---------------------------------------------------------------------------
(* Widths *)

WordBits == 4

B32 == WordBits
B64 == 2 * WordBits
B128 == 4 * WordBits

Pow2(n) == 2 ^ n

\* value of the low `bits` bits of x, read as unsigned (`as uN`)
wrap_u(x, bits) == x % Pow2(bits)

\* value of the low `bits` bits of x, read as two's complement (`as iN`)
wrap_i(x, bits) ==
    LET u == x % Pow2(bits)
    IN  IF u >= Pow2(bits - 1) THEN u - Pow2(bits) ELSE u

as_u32(x) == wrap_u(x, B32)
as_i32(x) == wrap_i(x, B32)
as_u64(x) == wrap_u(x, B64)
as_i64(x) == wrap_i(x, B64)
as_u128(x) == wrap_u(x, B128)
as_i128(x) == wrap_i(x, B128)

int_min_value(bits) == -Pow2(bits - 1)
int_max_value(bits) == Pow2(bits - 1) - 1
uint_max_value(bits) == Pow2(bits) - 1

fits_signed(x, bits) == int_min_value(bits) <= x /\ x <= int_max_value(bits)
fits_unsigned(x, bits) == 0 <= x /\ x <= uint_max_value(bits)

---------------------------------------------------------------------------
(* Option and Result *)

None == <<>>
Some(v) == <<v>>
is_some(o) == o # <<>>
is_none(o) == o = <<>>
unwrap(o) == o[1]

Ok(v) == [err |-> None, val |-> Some(v), panic |-> FALSE]
Err(reg) == [err |-> Some(reg), val |-> None, panic |-> FALSE]
Panic == [err |-> None, val |-> None, panic |-> TRUE]
NotRun == [err |-> None, val |-> None, panic |-> FALSE]

is_ok(r) == is_some(r.val)
is_err(r) == is_some(r.err)
ok_val(r) == unwrap(r.val)

---------------------------------------------------------------------------
(* Rust integer primitives *)

Abs(x) == IF x < 0 THEN -x ELSE x

\* Rust `/` on integers: the quotient truncated toward zero
trunc_div(a, b) ==
    LET q == Abs(a) \div Abs(b)
    IN  IF (a < 0) = (b < 0) THEN q ELSE -q

\* Rust `%` on integers: the remainder has the sign of the dividend
trunc_rem(a, b) == a - b * trunc_div(a, b)

\* Rust `/` and `%` panic on a zero divisor and on MIN / -1
div_panics(a, b, bits) ==
    b = 0 \/ (b = -1 /\ a = int_min_value(bits))

\* iN::overflowing_add: <<wrapped sum, overflowed>>
overflowing_add(a, b, bits) ==
    <<wrap_i(a + b, bits), ~fits_signed(a + b, bits)>>

\* iN::overflowing_sub: <<wrapped difference, overflowed>>
overflowing_sub(a, b, bits) ==
    <<wrap_i(a - b, bits), ~fits_signed(a - b, bits)>>

\* iN::wrapping_mul
wrapping_mul(a, b, bits) == wrap_i(a * b, bits)

\* iN::checked_mul(..).is_none()
checked_mul_is_none(a, b, bits) == ~fits_signed(a * b, bits)

\* `x << n` on a signed integer of `bits` bits (high bits shifted out)
shl_i(x, n, bits) == wrap_i(x * Pow2(n), bits)

\* `x << n` on an unsigned integer of `bits` bits
shl_u(x, n, bits) == wrap_u(x * Pow2(n), bits)

\* `x >> n`: arithmetic on signed, logical on unsigned
shr(x, n) == x \div Pow2(n)

---------------------------------------------------------------------------
(* Flag records, src/src/lib.rs *)

OverflowFlags == [so : BOOLEAN, ov : BOOLEAN, ov32 : BOOLEAN]
CarryFlags == [ca : BOOLEAN, ca32 : BOOLEAN]

OverflowFlags_default == [so |-> FALSE, ov |-> FALSE, ov32 |-> FALSE]

\* mutant of from_overflow: the 32-bit overflow bit is left clear
from_overflow_ov32_clear(overflow) ==
    [so |-> overflow, ov |-> overflow, ov32 |-> FALSE]

from_overflow(overflow) ==
    [so |-> overflow, ov |-> overflow, ov32 |-> overflow]

\* mutant of from_signed_int: zero is also reported as greater
from_signed_int_zero_is_gt(value, so) ==
    [lt |-> value < 0, gt |-> value >= 0, eq |-> value = 0, so |-> so]

from_signed_int(value, so) ==
    [lt |-> value < 0, gt |-> value > 0, eq |-> value = 0, so |-> so]

InstructionOutput_default ==
    [rt |-> None, overflow |-> None, carry |-> None,
     cr0 |-> None, cr1 |-> None, cr2 |-> None, cr3 |-> None,
     cr4 |-> None, cr5 |-> None, cr6 |-> None, cr7 |-> None]

InstructionInputRegister == {"Ra", "Rb", "Rc", "Carry", "Overflow"}

try_get_ra(i) == IF is_none(i.ra) THEN Err("Ra") ELSE Ok(unwrap(i.ra))
\* mutant of try_get_rb: the error names Ra
try_get_rb_names_ra(i) ==
    IF is_none(i.rb) THEN Err("Ra") ELSE Ok(unwrap(i.rb))

try_get_rb(i) == IF is_none(i.rb) THEN Err("Rb") ELSE Ok(unwrap(i.rb))
try_get_rc(i) == IF is_none(i.rc) THEN Err("Rc") ELSE Ok(unwrap(i.rc))
try_get_carry(i) ==
    IF is_none(i.carry) THEN Err("Carry") ELSE Ok(unwrap(i.carry))
try_get_overflow(i) ==
    IF is_none(i.overflow) THEN Err("Overflow") ELSE Ok(unwrap(i.overflow))

---------------------------------------------------------------------------
(* src/src/instr_models.rs: combinators *)

\* mutant of propagate_so: the incoming so is read but not carried over
propagate_so_not_sticky(overflow, i) ==
    LET got == try_get_overflow(i)
    IN  IF ~is_ok(got) THEN got ELSE Ok(overflow)

propagate_so(overflow, i) ==
    LET got == try_get_overflow(i)
    IN  IF ~is_ok(got) THEN got
        ELSE IF ok_val(got).so
             THEN Ok([overflow EXCEPT !.so = TRUE])
             ELSE Ok(overflow)

\* create_instr_variants_ov_cr, $fn: inputs.overflow = Some(default)
fresh_overflow(i) == [i EXCEPT !.overflow = Some(OverflowFlags_default)]

\* create_instr_variants_ov_cr, $fn: r is $fno(inputs) on the inputs with
\* the fresh overflow
ov_cr_fn(r) ==
    IF ~is_ok(r) THEN r
    ELSE Ok([ok_val(r) EXCEPT !.overflow = None])

\* mutant of ov_cr_fno_: cr0.so is this operation's ov, not the summary
ov_cr_fno__so_from_ov(r, iwidth) ==
    IF ~is_ok(r) THEN r
    ELSE LET retval == ok_val(r)
         IN  IF is_none(retval.rt) \/ is_none(retval.overflow)
             THEN Panic
             ELSE LET res == unwrap(retval.rt)
                      so == unwrap(retval.overflow).ov
                      cr0 == from_signed_int(wrap_i(res, iwidth), so)
                  IN  Ok([retval EXCEPT !.cr0 = Some(cr0)])

\* create_instr_variants_ov_cr, $fno_: r is $fno(inputs)
ov_cr_fno_(r, iwidth) ==
    IF ~is_ok(r) THEN r
    ELSE LET retval == ok_val(r)
         IN  IF is_none(retval.rt) \/ is_none(retval.overflow)
             THEN Panic
             ELSE LET res == unwrap(retval.rt)
                      so == unwrap(retval.overflow).so
                      cr0 == from_signed_int(wrap_i(res, iwidth), so)
                  IN  Ok([retval EXCEPT !.cr0 = Some(cr0)])

\* create_instr_variants_ov_cr, $fn_: r is $fno_(inputs)
ov_cr_fn_(r, i) ==
    IF ~is_ok(r) THEN r
    ELSE LET retval == ok_val(r)
             got == try_get_overflow(i)
         IN  IF is_none(retval.cr0) THEN Panic
             ELSE IF ~is_ok(got) THEN got
             ELSE Ok([retval EXCEPT
                        !.cr0 = Some([unwrap(retval.cr0) EXCEPT
                                        !.so = ok_val(got).so]),
                        !.overflow = None])

\* mutant of cr_fn_: cr0.so is always clear
cr_fn__so_clear(r, i, iwidth) ==
    IF ~is_ok(r) THEN r
    ELSE LET retval == ok_val(r)
             got == try_get_overflow(i)
         IN  IF is_none(retval.rt) THEN Panic
             ELSE IF ~is_ok(got) THEN got
             ELSE Ok([retval EXCEPT !.cr0 =
                        Some(from_signed_int(
                               wrap_i(unwrap(retval.rt), iwidth),
                               FALSE))])

\* create_instr_variants_cr, $fn_: r is $fn(inputs)
cr_fn_(r, i, iwidth) ==
    IF ~is_ok(r) THEN r
    ELSE LET retval == ok_val(r)
             got == try_get_overflow(i)
         IN  IF is_none(retval.rt) THEN Panic
             ELSE IF ~is_ok(got) THEN got
             ELSE Ok([retval EXCEPT !.cr0 =
                        Some(from_signed_int(
                               wrap_i(unwrap(retval.rt), iwidth),
                               ok_val(got).so))])

\* Ok(InstructionOutput { rt, overflow: propagate_so(flags, inputs)?, .. })
rt_overflow_output(rt, flags, i) ==
    LET so == propagate_so(flags, i)
    IN  IF ~is_ok(so) THEN so
        ELSE Ok([InstructionOutput_default EXCEPT
                   !.rt = Some(rt), !.overflow = Some(ok_val(so))])

\* Ok(InstructionOutput { rt, ..InstructionOutput::default() })
rt_output(rt) == Ok([InstructionOutput_default EXCEPT !.rt = Some(rt)])

---------------------------------------------------------------------------
(* src/src/instr_models.rs: add, subf *)

\* mutant of addo: so is taken from the 32-bit overflow
addo_so_from_ov32(i) ==
    LET ra == as_i64(ok_val(try_get_ra(i)))
        rb == as_i64(ok_val(try_get_rb(i)))
        sum == overflowing_add(ra, rb, B64)
        ov32 == overflowing_add(as_i32(ra), as_i32(rb), B32)[2]
    IN  rt_overflow_output(as_u64(sum[1]),
                           [so |-> ov32, ov |-> sum[2], ov32 |-> ov32], i)

addo(i) ==
    IF ~is_ok(try_get_ra(i)) THEN try_get_ra(i) ELSE
    IF ~is_ok(try_get_rb(i)) THEN try_get_rb(i) ELSE
    LET ra == as_i64(ok_val(try_get_ra(i)))
        rb == as_i64(ok_val(try_get_rb(i)))
        sum == overflowing_add(ra, rb, B64)
        res == as_u64(sum[1])
        ov == sum[2]
        ov32 == overflowing_add(as_i32(ra), as_i32(rb), B32)[2]
    IN  rt_overflow_output(res, [so |-> ov, ov |-> ov, ov32 |-> ov32], i)

subfo(i) ==
    IF ~is_ok(try_get_ra(i)) THEN try_get_ra(i) ELSE
    IF ~is_ok(try_get_rb(i)) THEN try_get_rb(i) ELSE
    LET ra == as_i64(ok_val(try_get_ra(i)))
        rb == as_i64(ok_val(try_get_rb(i)))
        dif == overflowing_sub(rb, ra, B64)
        res == as_u64(dif[1])
        ov == dif[2]
        ov32 == overflowing_sub(as_i32(rb), as_i32(ra), B32)[2]
    IN  rt_overflow_output(res, [so |-> ov, ov |-> ov, ov32 |-> ov32], i)

---------------------------------------------------------------------------
(* src/src/instr_models.rs: 64-bit division *)

\* mutant of divdeo: the 128-bit quotient is truncated to 64 bits without
\* the test that it fits
divdeo_unchecked_quotient(i) ==
    LET dividend == shl_i(as_i64(ok_val(try_get_ra(i))), B64, B128)
        divisor == as_i64(ok_val(try_get_rb(i)))
    IN  IF divisor = 0
           \/ (divisor = -1 /\ dividend = int_min_value(B128))
        THEN rt_overflow_output(0, from_overflow(TRUE), i)
        ELSE rt_overflow_output(as_u64(trunc_div(dividend, divisor)),
                                from_overflow(FALSE), i)

divdeo(i) ==
    IF ~is_ok(try_get_ra(i)) THEN try_get_ra(i) ELSE
    IF ~is_ok(try_get_rb(i)) THEN try_get_rb(i) ELSE
    LET dividend == shl_i(as_i64(ok_val(try_get_ra(i))), B64, B128)
        divisor == as_i64(ok_val(try_get_rb(i)))
    IN  IF divisor = 0
           \/ (divisor = -1 /\ dividend = int_min_value(B128))
        THEN rt_overflow_output(0, from_overflow(TRUE), i)
        ELSE IF div_panics(dividend, divisor, B128) THEN Panic
        ELSE LET result128 == trunc_div(dividend, divisor)
             IN  IF as_i64(result128) # result128
                 THEN rt_overflow_output(0, from_overflow(TRUE), i)
                 ELSE rt_overflow_output(as_u64(result128),
                                         from_overflow(FALSE), i)

\* mutant of divdeuo: a quotient above u64::MAX is truncated, not flagged
divdeuo_truncated_quotient(i) ==
    IF ~is_ok(try_get_ra(i)) THEN try_get_ra(i) ELSE
    IF ~is_ok(try_get_rb(i)) THEN try_get_rb(i) ELSE
    LET dividend == shl_u(ok_val(try_get_ra(i)), B64, B128)
        divisor == ok_val(try_get_rb(i))
    IN  IF divisor = 0
        THEN rt_overflow_output(0, from_overflow(TRUE), i)
        ELSE rt_overflow_output(as_u64(dividend \div divisor),
                                from_overflow(FALSE), i)

divdeuo(i) ==
    IF ~is_ok(try_get_ra(i)) THEN try_get_ra(i) ELSE
    IF ~is_ok(try_get_rb(i)) THEN try_get_rb(i) ELSE
    LET dividend == shl_u(ok_val(try_get_ra(i)), B64, B128)
        divisor == ok_val(try_get_rb(i))
    IN  IF divisor = 0
        THEN rt_overflow_output(0, from_overflow(TRUE), i)
        ELSE LET resultu128 == dividend \div divisor
             IN  IF resultu128 > uint_max_value(B64)
                 THEN rt_overflow_output(0, from_overflow(TRUE), i)
                 ELSE rt_overflow_output(as_u64(resultu128),
                                         from_overflow(FALSE), i)

\* mutant of divdo: the quotient is rounded toward minus infinity
divdo_floor_division(i) ==
    LET dividend == as_i64(ok_val(try_get_ra(i)))
        divisor == as_i64(ok_val(try_get_rb(i)))
        floor == IF divisor > 0 THEN dividend \div divisor
                 ELSE (-dividend) \div (-divisor)
    IN  IF divisor = 0
           \/ (divisor = -1 /\ dividend = int_min_value(B64))
        THEN rt_overflow_output(0, from_overflow(TRUE), i)
        ELSE rt_overflow_output(as_u64(floor), from_overflow(FALSE), i)

divdo(i) ==
    IF ~is_ok(try_get_ra(i)) THEN try_get_ra(i) ELSE
    IF ~is_ok(try_get_rb(i)) THEN try_get_rb(i) ELSE
    LET dividend == as_i64(ok_val(try_get_ra(i)))
        divisor == as_i64(ok_val(try_get_rb(i)))
    IN  IF divisor = 0
           \/ (divisor = -1 /\ dividend = int_min_value(B64))
        THEN rt_overflow_output(0, from_overflow(TRUE), i)
        ELSE IF div_panics(dividend, divisor, B64) THEN Panic
        ELSE rt_overflow_output(as_u64(trunc_div(dividend, divisor)),
                                from_overflow(FALSE), i)

\* mutant of divduo: the division is reached with a zero divisor
divduo_unguarded(i) ==
    IF ~is_ok(try_get_ra(i)) THEN try_get_ra(i) ELSE
    IF ~is_ok(try_get_rb(i)) THEN try_get_rb(i) ELSE
    LET dividend == ok_val(try_get_ra(i))
        divisor == ok_val(try_get_rb(i))
    IN  IF divisor = 0
        THEN Panic
        ELSE rt_overflow_output(dividend \div divisor,
                                from_overflow(FALSE), i)

divduo(i) ==
    IF ~is_ok(try_get_ra(i)) THEN try_get_ra(i) ELSE
    IF ~is_ok(try_get_rb(i)) THEN try_get_rb(i) ELSE
    LET dividend == ok_val(try_get_ra(i))
        divisor == ok_val(try_get_rb(i))
    IN  IF divisor = 0
        THEN rt_overflow_output(0, from_overflow(TRUE), i)
        ELSE rt_overflow_output(dividend \div divisor,
                                from_overflow(FALSE), i)

---------------------------------------------------------------------------
(* src/src/instr_models.rs: 32-bit division *)

divweo(i) ==
    IF ~is_ok(try_get_ra(i)) THEN try_get_ra(i) ELSE
    IF ~is_ok(try_get_rb(i)) THEN try_get_rb(i) ELSE
    LET dividend == shl_i(as_i32(ok_val(try_get_ra(i))), B32, B64)
        divisor == as_i32(ok_val(try_get_rb(i)))
    IN  IF divisor = 0
           \/ (divisor = -1 /\ dividend = int_min_value(B64))
        THEN rt_overflow_output(0, from_overflow(TRUE), i)
        ELSE IF div_panics(dividend, divisor, B64) THEN Panic
        ELSE LET result64 == trunc_div(dividend, divisor)
             IN  IF as_i32(result64) # result64
                 THEN rt_overflow_output(0, from_overflow(TRUE), i)
                 ELSE rt_overflow_output(as_u32(result64),
                                         from_overflow(FALSE), i)

divweuo(i) ==
    IF ~is_ok(try_get_ra(i)) THEN try_get_ra(i) ELSE
    IF ~is_ok(try_get_rb(i)) THEN try_get_rb(i) ELSE
    LET dividend == shl_u(as_u32(ok_val(try_get_ra(i))), B32, B64)
        divisor == as_u32(ok_val(try_get_rb(i)))
    IN  IF divisor = 0
        THEN rt_overflow_output(0, from_overflow(TRUE), i)
        ELSE LET resultu64 == dividend \div divisor
             IN  IF resultu64 > uint_max_value(B32)
                 THEN rt_overflow_output(0, from_overflow(TRUE), i)
                 ELSE rt_overflow_output(as_u32(resultu64),
                                         from_overflow(FALSE), i)

\* mutant of divwo: the 32-bit quotient is sign-extended into rt
divwo_sign_extended(i) ==
    LET dividend == as_i32(ok_val(try_get_ra(i)))
        divisor == as_i32(ok_val(try_get_rb(i)))
    IN  IF divisor = 0
           \/ (divisor = -1 /\ dividend = int_min_value(B32))
        THEN rt_overflow_output(0, from_overflow(TRUE), i)
        ELSE rt_overflow_output(as_u64(trunc_div(dividend, divisor)),
                                from_overflow(FALSE), i)

divwo(i) ==
    IF ~is_ok(try_get_ra(i)) THEN try_get_ra(i) ELSE
    IF ~is_ok(try_get_rb(i)) THEN try_get_rb(i) ELSE
    LET dividend == as_i32(ok_val(try_get_ra(i)))
        divisor == as_i32(ok_val(try_get_rb(i)))
    IN  IF divisor = 0
           \/ (divisor = -1 /\ dividend = int_min_value(B32))
        THEN rt_overflow_output(0, from_overflow(TRUE), i)
        ELSE IF div_panics(dividend, divisor, B32) THEN Panic
        ELSE rt_overflow_output(as_u32(trunc_div(dividend, divisor)),
                                from_overflow(FALSE), i)

divwuo(i) ==
    IF ~is_ok(try_get_ra(i)) THEN try_get_ra(i) ELSE
    IF ~is_ok(try_get_rb(i)) THEN try_get_rb(i) ELSE
    LET dividend == as_u32(ok_val(try_get_ra(i)))
        divisor == as_u32(ok_val(try_get_rb(i)))
    IN  IF divisor = 0
        THEN rt_overflow_output(0, from_overflow(TRUE), i)
        ELSE rt_overflow_output(dividend \div divisor,
                                from_overflow(FALSE), i)

---------------------------------------------------------------------------
(* src/src/instr_models.rs: modulo *)

\* mutant of modsd: the remainder takes the sign of the divisor
modsd_floor_modulo(i) ==
    LET dividend == as_i64(ok_val(try_get_ra(i)))
        divisor == as_i64(ok_val(try_get_rb(i)))
        floor == IF divisor > 0 THEN dividend % divisor
                 ELSE -((-dividend) % (-divisor))
    IN  IF divisor = 0
           \/ (divisor = -1 /\ dividend = int_min_value(B64))
        THEN rt_output(0)
        ELSE rt_output(as_u64(floor))

modsd(i) ==
    IF ~is_ok(try_get_ra(i)) THEN try_get_ra(i) ELSE
    IF ~is_ok(try_get_rb(i)) THEN try_get_rb(i) ELSE
    LET dividend == as_i64(ok_val(try_get_ra(i)))
        divisor == as_i64(ok_val(try_get_rb(i)))
    IN  IF divisor = 0
           \/ (divisor = -1 /\ dividend = int_min_value(B64))
        THEN rt_output(0)
        ELSE IF div_panics(dividend, divisor, B64) THEN Panic
        ELSE rt_output(as_u64(trunc_rem(dividend, divisor)))

modud(i) ==
    IF ~is_ok(try_get_ra(i)) THEN try_get_ra(i) ELSE
    IF ~is_ok(try_get_rb(i)) THEN try_get_rb(i) ELSE
    LET dividend == ok_val(try_get_ra(i))
        divisor == ok_val(try_get_rb(i))
    IN  IF divisor = 0
        THEN rt_output(0)
        ELSE rt_output(dividend % divisor)

\* mutant of modsw: the remainder is zero-extended
modsw_zero_extended(i) ==
    IF ~is_ok(try_get_ra(i)) THEN try_get_ra(i) ELSE
    IF ~is_ok(try_get_rb(i)) THEN try_get_rb(i) ELSE
    LET dividend == as_i32(ok_val(try_get_ra(i)))
        divisor == as_i32(ok_val(try_get_rb(i)))
    IN  IF divisor = 0
           \/ (divisor = -1 /\ dividend = int_min_value(B32))
        THEN rt_output(0)
        ELSE rt_output(as_u32(trunc_rem(dividend, divisor)))

modsw(i) ==
    IF ~is_ok(try_get_ra(i)) THEN try_get_ra(i) ELSE
    IF ~is_ok(try_get_rb(i)) THEN try_get_rb(i) ELSE
    LET dividend == as_i32(ok_val(try_get_ra(i)))
        divisor == as_i32(ok_val(try_get_rb(i)))
    IN  IF divisor = 0
           \/ (divisor = -1 /\ dividend = int_min_value(B32))
        THEN rt_output(0)
        ELSE IF div_panics(dividend, divisor, B32) THEN Panic
        ELSE rt_output(as_u64(trunc_rem(dividend, divisor)))

moduw(i) ==
    IF ~is_ok(try_get_ra(i)) THEN try_get_ra(i) ELSE
    IF ~is_ok(try_get_rb(i)) THEN try_get_rb(i) ELSE
    LET dividend == as_u32(ok_val(try_get_ra(i)))
        divisor == as_u32(ok_val(try_get_rb(i)))
    IN  IF divisor = 0
        THEN rt_output(0)
        ELSE rt_output(dividend % divisor)

---------------------------------------------------------------------------
(* src/src/instr_models.rs: multiply, multiply-high, multiply-add *)

\* `a | b` on unsigned integers of `bits` bits
RECURSIVE bit_or(_, _, _)
bit_or(a, b, bits) ==
    IF bits = 0 THEN 0
    ELSE (IF a % 2 = 1 \/ b % 2 = 1 THEN 1 ELSE 0)
         + 2 * bit_or(a \div 2, b \div 2, bits - 1)

\* mutant of mullwo: the product is cut to 32 bits and sign-extended
mullwo_truncated(i) ==
    LET ra == as_i32(ok_val(try_get_ra(i)))
        rb == as_i32(ok_val(try_get_rb(i)))
        res == as_u64(wrapping_mul(ra, rb, B64))
        overflow == as_i32(res) # as_i64(res)
    IN  rt_overflow_output(as_u64(as_i32(res)), from_overflow(overflow), i)

mullwo(i) ==
    IF ~is_ok(try_get_ra(i)) THEN try_get_ra(i) ELSE
    IF ~is_ok(try_get_rb(i)) THEN try_get_rb(i) ELSE
    LET ra == as_i32(ok_val(try_get_ra(i)))
        rb == as_i32(ok_val(try_get_rb(i)))
        res == as_u64(wrapping_mul(ra, rb, B64))
        overflow == as_i32(res) # as_i64(res)
    IN  rt_overflow_output(res, from_overflow(overflow), i)

\* mutant of mulhw: the high word of the product is zero-extended
mulhw_zero_extended(i) ==
    IF ~is_ok(try_get_ra(i)) THEN try_get_ra(i) ELSE
    IF ~is_ok(try_get_rb(i)) THEN try_get_rb(i) ELSE
    LET ra == as_i32(ok_val(try_get_ra(i)))
        rb == as_i32(ok_val(try_get_rb(i)))
    IN  rt_output(as_u32(shr(ra * rb, B32)))

\* mutant of mulhw: the low words are taken as unsigned
mulhw_unsigned_operands(i) ==
    LET ra == as_u32(ok_val(try_get_ra(i)))
        rb == as_u32(ok_val(try_get_rb(i)))
        res == as_u32(shr(ra * rb, B32))
    IN  rt_output(bit_or(res, shl_u(res, B32, B64), B64))

mulhw(i) ==
    IF ~is_ok(try_get_ra(i)) THEN try_get_ra(i) ELSE
    IF ~is_ok(try_get_rb(i)) THEN try_get_rb(i) ELSE
    LET ra == as_i32(ok_val(try_get_ra(i)))
        rb == as_i32(ok_val(try_get_rb(i)))
    IN  IF ~fits_signed(ra * rb, B64) THEN Panic
        ELSE LET res == as_u32(shr(ra * rb, B32))
             IN  rt_output(bit_or(res, shl_u(res, B32, B64), B64))

mulhwu(i) ==
    IF ~is_ok(try_get_ra(i)) THEN try_get_ra(i) ELSE
    IF ~is_ok(try_get_rb(i)) THEN try_get_rb(i) ELSE
    LET ra == as_u32(ok_val(try_get_ra(i)))
        rb == as_u32(ok_val(try_get_rb(i)))
    IN  IF ~fits_unsigned(ra * rb, B64) THEN Panic
        ELSE LET res == as_u32(shr(ra * rb, B32))
             IN  rt_output(bit_or(res, shl_u(res, B32, B64), B64))

mulldo(i) ==
    IF ~is_ok(try_get_ra(i)) THEN try_get_ra(i) ELSE
    IF ~is_ok(try_get_rb(i)) THEN try_get_rb(i) ELSE
    LET ra == as_i64(ok_val(try_get_ra(i)))
        rb == as_i64(ok_val(try_get_rb(i)))
        res == as_u64(wrapping_mul(ra, rb, B64))
        overflow == checked_mul_is_none(ra, rb, B64)
    IN  rt_overflow_output(res, from_overflow(overflow), i)

\* mutant of mulhd: rb is taken as unsigned
mulhd_rb_unsigned(i) ==
    LET ra == as_i64(ok_val(try_get_ra(i)))
        rb == ok_val(try_get_rb(i))
    IN  rt_output(as_u64(as_i64(shr(ra * rb, B64))))

mulhd(i) ==
    IF ~is_ok(try_get_ra(i)) THEN try_get_ra(i) ELSE
    IF ~is_ok(try_get_rb(i)) THEN try_get_rb(i) ELSE
    LET ra == as_i64(ok_val(try_get_ra(i)))
        rb == as_i64(ok_val(try_get_rb(i)))
    IN  IF ~fits_signed(ra * rb, B128) THEN Panic
        ELSE rt_output(as_u64(as_i64(shr(ra * rb, B64))))

mulhdu(i) ==
    IF ~is_ok(try_get_ra(i)) THEN try_get_ra(i) ELSE
    IF ~is_ok(try_get_rb(i)) THEN try_get_rb(i) ELSE
    LET ra == ok_val(try_get_ra(i))
        rb == ok_val(try_get_rb(i))
    IN  IF ~fits_unsigned(ra * rb, B128) THEN Panic
        ELSE rt_output(as_u64(shr(ra * rb, B64)))

\* mutant of maddhd: the upper halves of the product and of rc are added,
\* losing the carry out of the lower half
maddhd_without_low_carry(i) ==
    LET ra == as_i64(ok_val(try_get_ra(i)))
        rb == as_i64(ok_val(try_get_rb(i)))
        rc == as_i64(ok_val(try_get_rc(i)))
    IN  rt_output(as_u64(shr(ra * rb, B64) + shr(rc, B64)))

maddhd(i) ==
    IF ~is_ok(try_get_ra(i)) THEN try_get_ra(i) ELSE
    IF ~is_ok(try_get_rb(i)) THEN try_get_rb(i) ELSE
    IF ~is_ok(try_get_rc(i)) THEN try_get_rc(i) ELSE
    LET ra == as_i64(ok_val(try_get_ra(i)))
        rb == as_i64(ok_val(try_get_rb(i)))
        rc == as_i64(ok_val(try_get_rc(i)))
    IN  IF ~fits_signed(ra * rb, B128) \/ ~fits_signed(ra * rb + rc, B128)
        THEN Panic
        ELSE rt_output(as_u64(shr(ra * rb + rc, B64)))

maddhdu(i) ==
    IF ~is_ok(try_get_ra(i)) THEN try_get_ra(i) ELSE
    IF ~is_ok(try_get_rb(i)) THEN try_get_rb(i) ELSE
    IF ~is_ok(try_get_rc(i)) THEN try_get_rc(i) ELSE
    LET ra == ok_val(try_get_ra(i))
        rb == ok_val(try_get_rb(i))
        rc == ok_val(try_get_rc(i))
    IN  IF ~fits_unsigned(ra * rb, B128)
           \/ ~fits_unsigned(ra * rb + rc, B128)
        THEN Panic
        ELSE rt_output(as_u64(shr(ra * rb + rc, B64)))

maddld(i) ==
    IF ~is_ok(try_get_ra(i)) THEN try_get_ra(i) ELSE
    IF ~is_ok(try_get_rb(i)) THEN try_get_rb(i) ELSE
    IF ~is_ok(try_get_rc(i)) THEN try_get_rc(i) ELSE
    LET ra == as_i64(ok_val(try_get_ra(i)))
        rb == as_i64(ok_val(try_get_rb(i)))
        rc == as_i64(ok_val(try_get_rc(i)))
    IN  rt_output(as_u64(wrap_i(wrapping_mul(ra, rb, B64) + rc, B64)))

---------------------------------------------------------------------------
(* src/src/instr_models.rs: the variants the two macros instantiate *)

\* mutant of add: the incoming overflow is not replaced by a fresh one
add_reads_incoming_overflow(i) == ov_cr_fn(addo(i))

add(i) == ov_cr_fn(addo(fresh_overflow(i)))
addo_(i) == ov_cr_fno_(addo(i), B64)

\* mutant of add_: cr0.so is left as the O-dot variant computed it
add__keeps_resulting_so(i) == ov_cr_fn(addo_(i))

add_(i) == ov_cr_fn_(addo_(i), i)

subf(i) == ov_cr_fn(subfo(fresh_overflow(i)))
subfo_(i) == ov_cr_fno_(subfo(i), B64)
subf_(i) == ov_cr_fn_(subfo_(i), i)

divde(i) == ov_cr_fn(divdeo(fresh_overflow(i)))
divdeo_(i) == ov_cr_fno_(divdeo(i), B64)
divde_(i) == ov_cr_fn_(divdeo_(i), i)

divdeu(i) == ov_cr_fn(divdeuo(fresh_overflow(i)))
divdeuo_(i) == ov_cr_fno_(divdeuo(i), B64)
divdeu_(i) == ov_cr_fn_(divdeuo_(i), i)

divd(i) == ov_cr_fn(divdo(fresh_overflow(i)))
divdo_(i) == ov_cr_fno_(divdo(i), B64)
divd_(i) == ov_cr_fn_(divdo_(i), i)

divdu(i) == ov_cr_fn(divduo(fresh_overflow(i)))
divduo_(i) == ov_cr_fno_(divduo(i), B64)
divdu_(i) == ov_cr_fn_(divduo_(i), i)

divwe(i) == ov_cr_fn(divweo(fresh_overflow(i)))
divweo_(i) == ov_cr_fno_(divweo(i), B64)
divwe_(i) == ov_cr_fn_(divweo_(i), i)

divweu(i) == ov_cr_fn(divweuo(fresh_overflow(i)))
divweuo_(i) == ov_cr_fno_(divweuo(i), B64)
divweu_(i) == ov_cr_fn_(divweuo_(i), i)

divw(i) == ov_cr_fn(divwo(fresh_overflow(i)))
divwo_(i) == ov_cr_fno_(divwo(i), B64)
divw_(i) == ov_cr_fn_(divwo_(i), i)

divwu(i) == ov_cr_fn(divwuo(fresh_overflow(i)))
divwuo_(i) == ov_cr_fno_(divwuo(i), B64)
divwu_(i) == ov_cr_fn_(divwuo_(i), i)

mullw(i) == ov_cr_fn(mullwo(fresh_overflow(i)))
mullwo_(i) == ov_cr_fno_(mullwo(i), B64)
mullw_(i) == ov_cr_fn_(mullwo_(i), i)

mulld(i) == ov_cr_fn(mulldo(fresh_overflow(i)))
mulldo_(i) == ov_cr_fno_(mulldo(i), B64)

\* mutant of mulld_: the macro is given the base function of mullw
mulld__wrong_base(i) == ov_cr_fn_(mullwo_(i), i)

mulld_(i) == ov_cr_fn_(mulldo_(i), i)

mulhw_(i) == cr_fn_(mulhw(i), i, B32)
mulhwu_(i) == cr_fn_(mulhwu(i), i, B32)
mulhd_(i) == cr_fn_(mulhd(i), i, B64)
mulhdu_(i) == cr_fn_(mulhdu(i), i, B64)

---------------------------------------------------------------------------
(* src/src/lib.rs: the instruction registry (instructions! { ... }) *)

\* Instr::VALUES, each opcode named by its model function
Instr_VALUES == <<
    "add", "addo", "add_", "addo_",
    "subf", "subfo", "subf_", "subfo_",
    "divde", "divdeo", "divde_", "divdeo_",
    "divdeu", "divdeuo", "divdeu_", "divdeuo_",
    "divd", "divdo", "divd_", "divdo_",
    "divdu", "divduo", "divdu_", "divduo_",
    "divwe", "divweo", "divwe_", "divweo_",
    "divweu", "divweuo", "divweu_", "divweuo_",
    "divw", "divwo", "divw_", "divwo_",
    "divwu", "divwuo", "divwu_", "divwuo_",
    "modsd", "modud", "modsw", "moduw",
    "mullw", "mullwo", "mullw_", "mullwo_",
    "mulhw", "mulhw_", "mulhwu", "mulhwu_",
    "mulld", "mulldo", "mulld_", "mulldo_",
    "mulhd", "mulhd_", "mulhdu", "mulhdu_",
    "maddhd", "maddhdu", "maddld"
>>

Instr == {Instr_VALUES[k] : k \in 1..Len(Instr_VALUES)}

\* Instr::get_used_input_registers: the declared inputs, in declared order
get_used_input_registers(ins) ==
    IF ins \in {"maddhd", "maddhdu", "maddld"}
    THEN <<"Ra", "Rb", "Rc">>
    ELSE <<"Ra", "Rb">>

\* Instr::get_model_fn, applied
get_model_fn(ins, i) ==
    CASE ins = "add" -> add(i)
      [] ins = "addo" -> addo(i)
      [] ins = "add_" -> add_(i)
      [] ins = "addo_" -> addo_(i)
      [] ins = "subf" -> subf(i)
      [] ins = "subfo" -> subfo(i)
      [] ins = "subf_" -> subf_(i)
      [] ins = "subfo_" -> subfo_(i)
      [] ins = "divde" -> divde(i)
      [] ins = "divdeo" -> divdeo(i)
      [] ins = "divde_" -> divde_(i)
      [] ins = "divdeo_" -> divdeo_(i)
      [] ins = "divdeu" -> divdeu(i)
      [] ins = "divdeuo" -> divdeuo(i)
      [] ins = "divdeu_" -> divdeu_(i)
      [] ins = "divdeuo_" -> divdeuo_(i)
      [] ins = "divd" -> divd(i)
      [] ins = "divdo" -> divdo(i)
      [] ins = "divd_" -> divd_(i)
      [] ins = "divdo_" -> divdo_(i)
      [] ins = "divdu" -> divdu(i)
      [] ins = "divduo" -> divduo(i)
      [] ins = "divdu_" -> divdu_(i)
      [] ins = "divduo_" -> divduo_(i)
      [] ins = "divwe" -> divwe(i)
      [] ins = "divweo" -> divweo(i)
      [] ins = "divwe_" -> divwe_(i)
      [] ins = "divweo_" -> divweo_(i)
      [] ins = "divweu" -> divweu(i)
      [] ins = "divweuo" -> divweuo(i)
      [] ins = "divweu_" -> divweu_(i)
      [] ins = "divweuo_" -> divweuo_(i)
      [] ins = "divw" -> divw(i)
      [] ins = "divwo" -> divwo(i)
      [] ins = "divw_" -> divw_(i)
      [] ins = "divwo_" -> divwo_(i)
      [] ins = "divwu" -> divwu(i)
      [] ins = "divwuo" -> divwuo(i)
      [] ins = "divwu_" -> divwu_(i)
      [] ins = "divwuo_" -> divwuo_(i)
      [] ins = "modsd" -> modsd(i)
      [] ins = "modud" -> modud(i)
      [] ins = "modsw" -> modsw(i)
      [] ins = "moduw" -> moduw(i)
      [] ins = "mullw" -> mullw(i)
      [] ins = "mullwo" -> mullwo(i)
      [] ins = "mullw_" -> mullw_(i)
      [] ins = "mullwo_" -> mullwo_(i)
      [] ins = "mulhw" -> mulhw(i)
      [] ins = "mulhw_" -> mulhw_(i)
      [] ins = "mulhwu" -> mulhwu(i)
      [] ins = "mulhwu_" -> mulhwu_(i)
      [] ins = "mulld" -> mulld(i)
      [] ins = "mulldo" -> mulldo(i)
      [] ins = "mulld_" -> mulld_(i)
      [] ins = "mulldo_" -> mulldo_(i)
      [] ins = "mulhd" -> mulhd(i)
      [] ins = "mulhd_" -> mulhd_(i)
      [] ins = "mulhdu" -> mulhdu(i)
      [] ins = "mulhdu_" -> mulhdu_(i)
      [] ins = "maddhd" -> maddhd(i)
      [] ins = "maddhdu" -> maddhdu(i)
      [] ins = "maddld" -> maddld(i)

---------------------------------------------------------------------------
(* Input domains *)

\* upper half of the patterned TEST_VALUES: the top bits of 0x1234_5678
UpperPattern == 305419896 \div Pow2(32 - B32)

\* src/src/main.rs TEST_VALUES, in order
TEST_VALUES == <<
    0,
    1,
    2,
    uint_max_value(B64),
    uint_max_value(B64) - 1,
    int_max_value(B64),
    Pow2(B64 - 1),
    UpperPattern * Pow2(B32),
    UpperPattern * Pow2(B32) + Pow2(B32 - 1),
    UpperPattern * Pow2(B32) + uint_max_value(B32),
    UpperPattern * Pow2(B32) + int_max_value(B32)
>>

\* operands the model is driven with: TEST_VALUES and three more
\* (an odd divisor, i64::MAX - 1, i64::MIN + 1)
Values ==
    {TEST_VALUES[k] : k \in 1..Len(TEST_VALUES)}
        \cup {3, int_max_value(B64) - 1, Pow2(B64 - 1) + 1}

\* operands when every subset of the input fields is populated
SubsetValues == {0, uint_max_value(B64)}

\* operands of a threaded sequence of O-variant calls
SeqValues ==
    {0, 1, uint_max_value(B64), int_max_value(B64), Pow2(B64 - 1),
     UpperPattern * Pow2(B32) + int_max_value(B32)}

Option(S) == {None} \cup {Some(v) : v \in S}

NoInstr == "none"

\* the O variants: the base functions given to create_instr_variants_ov_cr
OVariants ==
    {"addo", "subfo", "divdeo", "divdeuo", "divdo", "divduo",
     "divweo", "divweuo", "divwo", "divwuo", "mullwo", "mulldo"}

---------------------------------------------------------------------------
(* src/src/lib.rs: the XER codec of the flag records.                      *)
(* A 64-bit word is the set of its set bits, each named by its weight:     *)
(* k is in the word iff the bit of value 2^k is 1.  The XER words are kept *)
(* at their real width, since the bit numbers are fixed by the ISA.        *)

Word64Bits == 0..63

\* `w << n` on a u64
word_shl(w, n) == {k + n : k \in w} \cap Word64Bits

\* `w >> n` on a u64
word_shr(w, n) == {k - n : k \in w} \cap Word64Bits

\* `a & b`, `a | b`, the literals 0 and 1
word_and(a, b) == a \cap b
word_or(a, b) == a \cup b
word_zero == {}
word_one == {0}

\* (1 << 63) >> powerpc_bit_num
get_xer_bit_mask(powerpc_bit_num) ==
    word_shr(word_shl(word_one, 63), powerpc_bit_num)

XER_SO_MASK == get_xer_bit_mask(32)
XER_OV_MASK == get_xer_bit_mask(33)

\* mutant of XER_OV32_MASK: ov32 is given the bit of ca32
XER_OV32_MASK_on_ca32 == get_xer_bit_mask(45)

XER_OV32_MASK == get_xer_bit_mask(44)
XER_CA_MASK == get_xer_bit_mask(34)
XER_CA32_MASK == get_xer_bit_mask(45)

OverflowFlags_from_xer(xer) ==
    [so |-> word_and(xer, XER_SO_MASK) # word_zero,
     ov |-> word_and(xer, XER_OV_MASK) # word_zero,
     ov32 |-> word_and(xer, XER_OV32_MASK) # word_zero]

OverflowFlags_to_xer(self) ==
    LET r0 == word_zero
        r1 == IF self.so THEN word_or(r0, XER_SO_MASK) ELSE r0
        r2 == IF self.ov THEN word_or(r1, XER_OV_MASK) ELSE r1
        r3 == IF self.ov32 THEN word_or(r2, XER_OV32_MASK) ELSE r2
    IN  r3

CarryFlags_from_xer(xer) ==
    [ca |-> word_and(xer, XER_CA_MASK) # word_zero,
     ca32 |-> word_and(xer, XER_CA32_MASK) # word_zero]

CarryFlags_to_xer(self) ==
    LET r0 == word_zero
        r1 == IF self.ca THEN word_or(r0, XER_CA_MASK) ELSE r0
        r2 == IF self.ca32 THEN word_or(r1, XER_CA32_MASK) ELSE r1
    IN  r2

---------------------------------------------------------------------------

(* src/src/lib.rs: ConditionRegister decoding.  The 32-bit cr word is the  *)
(* set of its set bits, like the XER words; the u8 given to from_4_bits is *)
(* an integer.  Ok wraps the returned record, Panic is the out-of-bounds   *)
(* index of the array the two functions use as their assertion.            *)

Word32Bits == 0..31

\* `cr >> n` on a u32
word32_shr(w, n) == {k - n : k \in w} \cap Word32Bits

\* the literal 0xF
word_0xF == {0, 1, 2, 3}

\* `w as u8` for a word below 256
word_as_u8(w) ==
    (IF 0 \in w THEN 1 ELSE 0) + (IF 1 \in w THEN 2 ELSE 0)
      + (IF 2 \in w THEN 4 ELSE 0) + (IF 3 \in w THEN 8 ELSE 0)
      + (IF 4 \in w THEN 16 ELSE 0) + (IF 5 \in w THEN 32 ELSE 0)
      + (IF 6 \in w THEN 64 ELSE 0) + (IF 7 \in w THEN 128 ELSE 0)

\* (bits & mask) != 0 for a one-bit mask
u8_bit_set(bits, mask) == (bits \div mask) % 2 = 1

from_4_bits(bits) ==
    IF bits >= 16 THEN Panic
    ELSE Ok([lt |-> u8_bit_set(bits, 8),
             gt |-> u8_bit_set(bits, 4),
             eq |-> u8_bit_set(bits, 2),
             so |-> u8_bit_set(bits, 1)])

CR_FIELD_COUNT == 8

\* mutant of from_cr_field: the fields are counted from the least
\* significant group
from_cr_field_from_lsb(cr, field_index) ==
    IF field_index >= CR_FIELD_COUNT THEN Panic
    ELSE from_4_bits(word_as_u8(
           word_and(word32_shr(cr, 4 * field_index), word_0xF)))

from_cr_field(cr, field_index) ==
    IF field_index >= CR_FIELD_COUNT THEN Panic
    ELSE LET reversed_field_index == CR_FIELD_COUNT - field_index - 1
             bits == word_and(word32_shr(cr, 4 * reversed_field_index),
                              word_0xF)
         IN  from_4_bits(word_as_u8(bits))

---------------------------------------------------------------------------

(* State machine: a caller builds an InstructionInput and runs a model *)

\* ra and rb populated, overflow populated or absent
Init ==
    /\ instr = NoInstr
    /\ result = NotRun
    /\ \E a \in Values, b \in Values, o \in Option(OverflowFlags) :
         inputs = [ra |-> Some(a), rb |-> Some(b), rc |-> None,
                   carry |-> None, overflow |-> o]

\* any subset of the five input fields populated
InitSubsets ==
    /\ instr = NoInstr
    /\ result = NotRun
    /\ \E a \in Option(SubsetValues), b \in Option(SubsetValues),
          c \in Option(SubsetValues), ca \in Option(CarryFlags),
          o \in Option(OverflowFlags) :
         inputs = [ra |-> a, rb |-> b, rc |-> c, carry |-> ca,
                   overflow |-> o]

\* the caller's status before a sequence of O-variant calls
InitSeq ==
    /\ instr = NoInstr
    /\ result = NotRun
    /\ \E o \in OverflowFlags :
         inputs = [ra |-> None, rb |-> None, rc |-> None,
                   carry |-> None, overflow |-> Some(o)]

\* instr.get_model_fn()(inputs)
Exec(ins) ==
    /\ instr = NoInstr
    /\ instr' = ins
    /\ result' = get_model_fn(ins, inputs)
    /\ UNCHANGED inputs

\* the overflow flags the caller holds: those it started with, then the
\* overflow output of the last call
threaded_overflow ==
    IF instr = NoInstr THEN inputs.overflow ELSE ok_val(result).overflow

\* the next O-variant call of a sequence: its overflow input is the
\* overflow output of the previous call
ExecNext(ins, a, b) ==
    /\ instr = NoInstr \/ is_ok(result)
    /\ LET x == [ra |-> Some(a), rb |-> Some(b), rc |-> None,
                 carry |-> None, overflow |-> threaded_overflow]
       IN  /\ inputs' = x
           /\ instr' = ins
           /\ result' = get_model_fn(ins, x)

Next == \E ins \in Instr : Exec(ins)

NextSeq == \E ins \in OVariants, a \in SeqValues, b \in SeqValues :
             ExecNext(ins, a, b)

Spec == Init /\ [][Next]_vars

SpecSubsets == InitSubsets /\ [][Next]_vars

\* ra, rb and rc populated: the inputs of the multiply-add opcodes
InitMadd ==
    /\ instr = NoInstr
    /\ result = NotRun
    /\ \E a \in Values, b \in Values, c \in Values :
         inputs = [ra |-> Some(a), rb |-> Some(b), rc |-> Some(c),
                   carry |-> None, overflow |-> None]

SpecMadd == InitMadd /\ [][Next]_vars

\* XER words to decode: none, all, single flags, unrelated bits, and all
\* but the flag bits
XerWords ==
    {{}, Word64Bits, {31}, {30, 29}, {19, 18}, {0, 17, 20, 28, 32, 63},
     Word64Bits \ {31, 30, 29, 19, 18}}

\* a flag record of each group and an XER word
InitXer ==
    /\ instr = NoInstr
    /\ result = NotRun
    /\ \E f \in OverflowFlags, c \in CarryFlags, w \in XerWords :
         inputs = [overflow |-> f, carry |-> c, xer |-> w]

\* inputs.overflow.to_xer()
ToXerOverflow ==
    /\ instr = NoInstr
    /\ instr' = "OverflowFlags::to_xer"
    /\ result' = OverflowFlags_to_xer(inputs.overflow)
    /\ UNCHANGED inputs

\* inputs.carry.to_xer()
ToXerCarry ==
    /\ instr = NoInstr
    /\ instr' = "CarryFlags::to_xer"
    /\ result' = CarryFlags_to_xer(inputs.carry)
    /\ UNCHANGED inputs

\* OverflowFlags::from_xer(xer) and CarryFlags::from_xer(xer)
FromXer ==
    /\ instr = NoInstr
    /\ instr' = "from_xer"
    /\ result' = [overflow |-> OverflowFlags_from_xer(inputs.xer),
                  carry |-> CarryFlags_from_xer(inputs.xer)]
    /\ UNCHANGED inputs

NextXer == ToXerOverflow \/ ToXerCarry \/ FromXer

SpecXer == InitXer /\ [][NextXer]_vars

\* largest field index and largest small u8 the decoders are called with
MaxFieldIndex == 9
MaxBits == 17

\* the cr word whose field i, counted from the most significant group,
\* holds i + 1
CrPattern ==
    {28 - 4 * i + k : i \in 0..7, k \in 0..3} \cap
    {n \in Word32Bits :
       ((7 - (n \div 4)) + 1) \div Pow2(n % 4) % 2 = 1}

CrWords ==
    {{}, Word32Bits, {31}, {28}, {3}, {0}, CrPattern,
     Word32Bits \ CrPattern}

\* the arguments of one call of a ConditionRegister constructor
InitCr ==
    /\ instr = NoInstr
    /\ result = NotRun
    /\ \/ \E w \in CrWords, n \in 0..MaxFieldIndex :
            inputs = [fn |-> "from_cr_field", cr |-> w, field_index |-> n]
       \/ \E b \in (0..MaxBits) \cup {255} :
            inputs = [fn |-> "from_4_bits", bits |-> b]
       \/ \E v \in int_min_value(B64)..int_max_value(B64), s \in BOOLEAN :
            inputs = [fn |-> "from_signed_int", value |-> v, so |-> s]

\* ConditionRegister::from_cr_field(cr, field_index)
FromCrField ==
    /\ instr = NoInstr
    /\ inputs.fn = "from_cr_field"
    /\ instr' = "from_cr_field"
    /\ result' = from_cr_field(inputs.cr, inputs.field_index)
    /\ UNCHANGED inputs

\* ConditionRegister::from_4_bits(bits)
From4Bits ==
    /\ instr = NoInstr
    /\ inputs.fn = "from_4_bits"
    /\ instr' = "from_4_bits"
    /\ result' = from_4_bits(inputs.bits)
    /\ UNCHANGED inputs

\* ConditionRegister::from_signed_int(value, so)
FromSignedInt ==
    /\ instr = NoInstr
    /\ inputs.fn = "from_signed_int"
    /\ instr' = "from_signed_int"
    /\ result' = from_signed_int(inputs.value, inputs.so)
    /\ UNCHANGED inputs

NextCr == FromCrField \/ From4Bits \/ FromSignedInt

SpecCr == InitCr /\ [][NextCr]_vars

\* the accessor of each input register
try_get_fn(reg, i) ==
    CASE reg = "Ra" -> try_get_ra(i)
      [] reg = "Rb" -> try_get_rb(i)
      [] reg = "Rc" -> try_get_rc(i)
      [] reg = "Carry" -> try_get_carry(i)
      [] reg = "Overflow" -> try_get_overflow(i)

\* inputs.try_get_<reg>()
TryGet(reg) ==
    /\ instr = NoInstr
    /\ instr' = reg
    /\ result' = try_get_fn(reg, inputs)
    /\ UNCHANGED inputs

NextGet == \E reg \in InstructionInputRegister : TryGet(reg)

SpecGet == InitSubsets /\ [][NextGet]_vars

\* src/src/main.rs: the opcodes the harness runs, in order
TestDivInstr_VALUES ==
    <<"divdeo", "divdeuo", "divdo", "divduo", "divweo", "divweuo",
      "divwo", "divwuo", "modsd", "modud", "modsw", "moduw">>

TestDivInstr == {TestDivInstr_VALUES[k] : k \in 1..Len(TestDivInstr_VALUES)}

\* what the native collaborator can hand back for a case whose model
\* output is m: nothing (built without native_instrs), the same output,
\* or an output that differs in rt, in the presence of the overflow field
\* or in the flags
NativeChoices ==
    {"none", "same", "other_rt", "overflow_absent", "overflow_clear",
     "overflow_set"}

native_outputs_of(choice, m) ==
    CASE choice = "none" -> None
      [] choice = "same" -> Some(m)
      [] choice = "other_rt" ->
           Some([m EXCEPT !.rt = Some(as_u64(unwrap(m.rt) + 1))])
      [] choice = "overflow_absent" -> Some([m EXCEPT !.overflow = None])
      [] choice = "overflow_clear" ->
           Some([m EXCEPT !.overflow = Some(OverflowFlags_default)])
      [] choice = "overflow_set" ->
           Some([m EXCEPT !.overflow = Some(from_overflow(TRUE))])

\* mutant of model_mismatch: only the rt fields are compared
model_mismatch_compares_rt(native_outputs, model_outputs) ==
    IF is_some(native_outputs)
       /\ unwrap(native_outputs).rt # model_outputs.rt
    THEN TRUE
    ELSE FALSE

\* match native_outputs { Some(n) if n != model_outputs => true, _ => false }
model_mismatch(native_outputs, model_outputs) ==
    IF is_some(native_outputs) /\ unwrap(native_outputs) # model_outputs
    THEN TRUE
    ELSE FALSE

\* one iteration of the harness loop: run the model, take the native
\* result if there is one, compare, record the test case
RunTestCase(ins, choice) ==
    /\ instr = NoInstr
    /\ is_ok(get_model_fn(ins, inputs))
    /\ LET model_outputs == ok_val(get_model_fn(ins, inputs))
           native_outputs == native_outputs_of(choice, model_outputs)
       IN  result' = [instr |-> ins,
                      inputs |-> inputs,
                      native_outputs |-> native_outputs,
                      model_outputs |-> model_outputs,
                      model_mismatch |->
                        model_mismatch(native_outputs, model_outputs)]
    /\ instr' = ins
    /\ UNCHANGED inputs

NextHarness ==
    \E ins \in TestDivInstr, choice \in NativeChoices :
        RunTestCase(ins, choice)

SpecHarness == Init /\ [][NextHarness]_vars

\* src/src/main.rs, main: the whole run.  While the loops run, instr is
\* "main", inputs holds the build feature and the positions of the three
\* nested loops (the next iteration to run) and result holds the locals
\* test_div_cases and any_model_mismatch; after the loops result is the
\* WholeTest that is written out and instr is "report".

\* how the native collaborator answers: not compiled in, or a pure
\* function that agrees with the model everywhere, nowhere, everywhere but
\* on one case, or that never reports overflow
NativeModes ==
    {"none", "agrees", "differs", "differs_once", "overflow_absent"}

\* the native result of one case under a mode
native_choice(mode, ins, dividend, divisor) ==
    CASE mode = "none" -> "none"
      [] mode = "agrees" -> "same"
      [] mode = "differs" -> "other_rt"
      [] mode = "differs_once" ->
           IF ins = "divdo" /\ dividend = Pow2(B64 - 1)
              /\ divisor = uint_max_value(B64)
           THEN "other_rt" ELSE "same"
      [] mode = "overflow_absent" -> "overflow_absent"

\* TestDivInput { dividend, divisor, .. } as the models read it
harness_inputs(dividend, divisor) ==
    [ra |-> Some(dividend), rb |-> Some(divisor), rc |-> None,
     carry |-> None, overflow |-> Some(OverflowFlags_default)]

InitLoop ==
    /\ instr = "main"
    /\ \E mode \in NativeModes :
         inputs = [native_instrs |-> mode, instr |-> 1, dividend |-> 1,
                   divisor |-> 1]
    /\ result = [test_div_cases |-> <<>>, any_model_mismatch |-> FALSE]

\* mutant of any_model_mismatch_or: the flag is overwritten by the last case
any_model_mismatch_last(any_model_mismatch, mismatch) == mismatch

\* any_model_mismatch |= model_mismatch
any_model_mismatch_or(any_model_mismatch, mismatch) ==
    any_model_mismatch \/ mismatch

\* mutant of next_position: the innermost loop stops one value early
next_position_short(pos) ==
    IF pos.divisor < Len(TEST_VALUES) - 1
    THEN [pos EXCEPT !.divisor = pos.divisor + 1]
    ELSE IF pos.dividend < Len(TEST_VALUES)
    THEN [pos EXCEPT !.dividend = pos.dividend + 1, !.divisor = 1]
    ELSE [pos EXCEPT !.instr = pos.instr + 1, !.dividend = 1,
                     !.divisor = 1]

\* the three nested for loops: the position after one more iteration
next_position(pos) ==
    IF pos.divisor < Len(TEST_VALUES)
    THEN [pos EXCEPT !.divisor = pos.divisor + 1]
    ELSE IF pos.dividend < Len(TEST_VALUES)
    THEN [pos EXCEPT !.dividend = pos.dividend + 1, !.divisor = 1]
    ELSE [pos EXCEPT !.instr = pos.instr + 1, !.dividend = 1,
                     !.divisor = 1]

\* one iteration of the innermost loop
LoopIteration ==
    /\ instr = "main"
    /\ inputs.instr <= Len(TestDivInstr_VALUES)
    /\ LET ins == TestDivInstr_VALUES[inputs.instr]
           dividend == TEST_VALUES[inputs.dividend]
           divisor == TEST_VALUES[inputs.divisor]
           case_inputs == harness_inputs(dividend, divisor)
           model_outputs == ok_val(get_model_fn(ins, case_inputs))
           native_outputs ==
               native_outputs_of(
                   native_choice(inputs.native_instrs, ins, dividend,
                                 divisor),
                   model_outputs)
           mismatch == model_mismatch(native_outputs, model_outputs)
       IN  result' =
             [test_div_cases |->
                Append(result.test_div_cases,
                       [instr |-> ins,
                        inputs |-> case_inputs,
                        native_outputs |-> native_outputs,
                        model_outputs |-> model_outputs,
                        model_mismatch |-> mismatch]),
              any_model_mismatch |->
                any_model_mismatch_or(result.any_model_mismatch, mismatch)]
    /\ inputs' = next_position(inputs)
    /\ UNCHANGED instr

\* after the loops: WholeTest { test_div_cases, any_model_mismatch }
WriteReport ==
    /\ instr = "main"
    /\ inputs.instr > Len(TestDivInstr_VALUES)
    /\ instr' = "report"
    /\ UNCHANGED <<inputs, result>>

NextLoop == LoopIteration \/ WriteReport

SpecLoop == InitLoop /\ [][NextLoop]_vars

\* the run is not suspended forever: a step that can be taken is taken
SpecLoopFair == SpecLoop /\ WF_vars(NextLoop)

\* third operands of a fully populated input: the extremes of both ranges
RcValues ==
    {0, 1, uint_max_value(B64), int_max_value(B64), Pow2(B64 - 1)}

\* every input field populated
InitFull ==
    /\ instr = NoInstr
    /\ result = NotRun
    /\ \E a \in Values, b \in Values, c \in RcValues, ca \in CarryFlags,
          o \in OverflowFlags :
         inputs = [ra |-> Some(a), rb |-> Some(b), rc |-> Some(c),
                   carry |-> Some(ca), overflow |-> Some(o)]

SpecFull == InitFull /\ [][Next]_vars

SpecSeq == InitSeq /\ [][NextSeq]_vars

---------------------------------------------------------------------------
(* Vocabulary of the properties *)

\* the families create_instr_variants_ov_cr! builds, by their plain name
OvFamilies ==
    {"add", "subf", "divde", "divdeu", "divd", "divdu",
     "divwe", "divweu", "divw", "divwu", "mullw", "mulld"}

plain_of(f) == f
o_of(f) == f \o "o"
dot_of(f) == f \o "_"
odot_of(f) == f \o "o_"

variants_of(f) == {plain_of(f), o_of(f), dot_of(f), odot_of(f)}

OvVariants == UNION {variants_of(f) : f \in OvFamilies}

family_of(ins) == CHOOSE f \in OvFamilies : ins \in variants_of(f)

\* the field of the input record a register names is absent
register_absent(i, reg) ==
    CASE reg = "Ra" -> is_none(i.ra)
      [] reg = "Rb" -> is_none(i.rb)
      [] reg = "Rc" -> is_none(i.rc)
      [] reg = "Carry" -> is_none(i.carry)
      [] reg = "Overflow" -> is_none(i.overflow)

\* ra, rb and overflow are populated
populated(i) == is_some(i.ra) /\ is_some(i.rb) /\ is_some(i.overflow)

with_overflow(i, o) == [i EXCEPT !.overflow = o]

rt_of(r) == unwrap(ok_val(r).rt)
overflow_of(r) == unwrap(ok_val(r).overflow)
cr0_of(r) == unwrap(ok_val(r).cr0)

---------------------------------------------------------------------------
(* C1 *)

\* C1: for every opcode and every subset of populated input fields, the
\* model returns MissingInput if and only if a register that
\* get_used_input_registers declares for the opcode is absent.
C1_MissingInputIffDeclaredAbsent ==
    instr # NoInstr =>
        LET regs == get_used_input_registers(instr)
        IN  is_err(result) <=>
              \E k \in 1..Len(regs) : register_absent(inputs, regs[k])

---------------------------------------------------------------------------
(* C2 *)

\* C2 as claimed: the dot variant's cr0 is from_signed(rt, so) with so
\* the summary overflow the O variant returns, and it has no overflow
\* field.
C2_DotCr0FromResultingSo ==
    \A f \in OvFamilies :
        instr = dot_of(f) /\ populated(inputs) =>
            LET o == get_model_fn(o_of(f), inputs)
            IN  /\ is_ok(result) /\ is_ok(o)
                /\ ok_val(result).cr0 =
                     Some(from_signed_int(as_i64(rt_of(o)),
                                          overflow_of(o).so))
                /\ ok_val(result).overflow = None

\* C2 amended: the dot variant's cr0 is from_signed(rt, so) with rt the
\* O variant's result and so the caller-supplied incoming overflow.so
\* (not the summary overflow after the operation), and its output has no
\* overflow field.
C2_DotCr0FromIncomingSo ==
    \A f \in OvFamilies :
        instr = dot_of(f) /\ populated(inputs) =>
            LET o == get_model_fn(o_of(f), inputs)
            IN  /\ is_ok(result) /\ is_ok(o)
                /\ ok_val(result).cr0 =
                     Some(from_signed_int(as_i64(rt_of(o)),
                                          unwrap(inputs.overflow).so))
                /\ ok_val(result).overflow = None

\* C2 witness: a dot variant ran with incoming so clear on operands on
\* which the O variant overflows, so the two readings of so differ.
C2_Witness ==
    /\ instr \in {dot_of(f) : f \in OvFamilies}
    /\ populated(inputs)
    /\ ~unwrap(inputs.overflow).so
    /\ is_ok(result)
    /\ overflow_of(get_model_fn(o_of(family_of(instr)), inputs)).so
    /\ ~cr0_of(result).so

---------------------------------------------------------------------------
(* C3 *)

\* C3: in every overflow family the plain, O, dot and O-dot variants
\* return the same rt on the same ra and rb, whatever the incoming
\* overflow flags are.
C3_VariantsAgreeOnRt ==
    instr \in OvVariants /\ populated(inputs) =>
        LET f == family_of(instr)
        IN  /\ is_ok(result)
            /\ \A v \in variants_of(f), g \in OverflowFlags :
                 LET r == get_model_fn(v, with_overflow(inputs, Some(g)))
                 IN  is_ok(r) /\ rt_of(r) = rt_of(result)

\* C3 witness: a dot variant ran with every incoming flag set on operands
\* with a non-zero result.
C3_Witness ==
    /\ instr \in {dot_of(f) : f \in OvFamilies}
    /\ inputs.overflow = Some([so |-> TRUE, ov |-> TRUE, ov32 |-> TRUE])
    /\ is_ok(result)
    /\ rt_of(result) # 0

---------------------------------------------------------------------------
(* C4 *)

\* C4: every O variant returns overflow = {so: incoming.so \/ ov, ov,
\* ov32} where ov and ov32 do not depend on the incoming flags, and
\* ov32 = ov for every opcode but addo and subfo.
C4_OVariantOverflowRecord ==
    instr \in OVariants /\ populated(inputs) =>
        /\ is_ok(result)
        /\ ok_val(result).overflow # None
        /\ LET out == overflow_of(result)
               fresh == overflow_of(get_model_fn(instr,
                          with_overflow(inputs,
                                        Some(OverflowFlags_default))))
           IN  /\ out.so = (unwrap(inputs.overflow).so \/ out.ov)
               /\ out.ov = fresh.ov
               /\ out.ov32 = fresh.ov32
               /\ instr \notin {"addo", "subfo"} => out.ov32 = out.ov

\* C4 witness: an O variant other than addo/subfo overflowed with the
\* incoming so clear and the incoming ov, ov32 set to differ.
C4_Witness ==
    /\ instr \in OVariants \ {"addo", "subfo"}
    /\ inputs.overflow = Some([so |-> FALSE, ov |-> FALSE, ov32 |-> TRUE])
    /\ is_ok(result)
    /\ overflow_of(result) = [so |-> TRUE, ov |-> TRUE, ov32 |-> TRUE]

---------------------------------------------------------------------------
(* C5 *)

\* C5: in a sequence of O-variant calls whose overflow input is the
\* overflow output of the previous call, so is monotonic: once the
\* threaded so is true it is true after every later call.
C5_SoSticky ==
    [][unwrap(threaded_overflow).so => unwrap(threaded_overflow').so]_vars

\* C5 witness: a call of the sequence came in with so and ov set (an
\* earlier overflow), did not overflow itself, and returned so still set.
C5_Witness ==
    /\ instr \in OVariants
    /\ is_ok(result)
    /\ unwrap(inputs.overflow).so
    /\ unwrap(inputs.overflow).ov
    /\ ~overflow_of(result).ov
    /\ overflow_of(result).so

---------------------------------------------------------------------------
(* C6 *)

\* C6: a plain variant of an overflow family neither reads nor writes
\* overflow state: with ra and rb populated it returns Ok, the output is
\* the same for every overflow field (absent included), and only rt is
\* populated.
C6_PlainIgnoresOverflow ==
    instr \in OvFamilies /\ is_some(inputs.ra) /\ is_some(inputs.rb) =>
        /\ is_ok(result)
        /\ \A o \in Option(OverflowFlags) :
             get_model_fn(instr, with_overflow(inputs, o)) = result
        /\ is_some(ok_val(result).rt)
        /\ ok_val(result) =
             [InstructionOutput_default EXCEPT !.rt = ok_val(result).rt]

\* C6 witness: a plain variant ran without an overflow input on operands
\* on which its O variant overflows, and returned only rt.
C6_Witness ==
    /\ instr \in OvFamilies
    /\ inputs.overflow = None
    /\ is_ok(result)
    /\ ok_val(result).overflow = None
    /\ overflow_of(get_model_fn(o_of(instr),
         with_overflow(inputs, Some(OverflowFlags_default)))).ov

---------------------------------------------------------------------------
(* C7 *)

\* q is the quotient of a by b rounded toward zero
is_trunc_quot(q, a, b) ==
    /\ b # 0
    /\ Abs(q) * Abs(b) <= Abs(a)
    /\ Abs(a) < (Abs(q) + 1) * Abs(b)
    /\ q > 0 => (a < 0) = (b < 0)
    /\ q < 0 => (a < 0) # (b < 0)

\* the operands of the executed instruction
ra_of(i) == unwrap(i.ra)
rb_of(i) == unwrap(i.rb)

\* C7: divdo returns rt = 0 with ov set exactly when rb is 0 or ra is
\* i64::MIN and rb is -1, and otherwise the signed quotient truncated
\* toward zero with ov clear; divduo returns rt = 0 with ov set exactly
\* when rb is 0, and otherwise the unsigned quotient with ov clear.
C7_DivdEdgePolicy ==
    /\ instr = "divdo" /\ is_some(inputs.overflow) =>
         LET a == as_i64(ra_of(inputs))
             b == as_i64(rb_of(inputs))
             edge == b = 0 \/ (b = -1 /\ a = int_min_value(B64))
         IN  /\ is_ok(result)
             /\ fits_unsigned(rt_of(result), B64)
             /\ edge => rt_of(result) = 0 /\ overflow_of(result).ov
             /\ ~edge => /\ ~overflow_of(result).ov
                         /\ is_trunc_quot(as_i64(rt_of(result)), a, b)
    /\ instr = "divduo" /\ is_some(inputs.overflow) =>
         LET a == ra_of(inputs)
             b == rb_of(inputs)
         IN  /\ is_ok(result)
             /\ fits_unsigned(rt_of(result), B64)
             /\ b = 0 => rt_of(result) = 0 /\ overflow_of(result).ov
             /\ b # 0 => /\ ~overflow_of(result).ov
                         /\ is_trunc_quot(rt_of(result), a, b)

\* C7 witness: divdo ran on i64::MIN / -1 and returned rt = 0 with ov set.
C7_Witness ==
    /\ instr = "divdo"
    /\ is_ok(result)
    /\ as_i64(ra_of(inputs)) = int_min_value(B64)
    /\ as_i64(rb_of(inputs)) = -1
    /\ rt_of(result) = 0
    /\ overflow_of(result).ov

---------------------------------------------------------------------------
(* C8 *)

\* C8: divdeo divides (ra as signed) * 2^64 by rb as signed, divdeuo
\* divides ra * 2^64 by rb unsigned; rt = 0 with ov set when the divisor
\* is 0 or no 64-bit value (signed resp. unsigned) is the quotient, and
\* otherwise rt is the quotient with ov clear.
C8_DivdeEdgePolicy ==
    /\ instr = "divdeo" /\ is_some(inputs.overflow) =>
         LET a == as_i64(ra_of(inputs)) * Pow2(B64)
             b == as_i64(rb_of(inputs))
             fit == \E q \in int_min_value(B64)..int_max_value(B64) :
                      is_trunc_quot(q, a, b)
         IN  /\ is_ok(result)
             /\ fits_unsigned(rt_of(result), B64)
             /\ ~fit => rt_of(result) = 0 /\ overflow_of(result).ov
             /\ fit => /\ ~overflow_of(result).ov
                       /\ is_trunc_quot(as_i64(rt_of(result)), a, b)
    /\ instr = "divdeuo" /\ is_some(inputs.overflow) =>
         LET a == ra_of(inputs) * Pow2(B64)
             b == rb_of(inputs)
             fit == \E q \in 0..uint_max_value(B64) : is_trunc_quot(q, a, b)
         IN  /\ is_ok(result)
             /\ fits_unsigned(rt_of(result), B64)
             /\ ~fit => rt_of(result) = 0 /\ overflow_of(result).ov
             /\ fit => /\ ~overflow_of(result).ov
                       /\ is_trunc_quot(rt_of(result), a, b)

\* C8 witness: divdeo ran on i128::MIN / -1 (ra = i64::MIN, rb = -1) and
\* returned rt = 0 with ov set.
C8_Witness ==
    /\ instr = "divdeo"
    /\ is_ok(result)
    /\ as_i64(ra_of(inputs)) * Pow2(B64) = int_min_value(B128)
    /\ as_i64(rb_of(inputs)) = -1
    /\ rt_of(result) = 0
    /\ overflow_of(result).ov

\* C8 witness, unsigned: divdeuo ran on a non-zero divisor whose quotient
\* exceeds u64::MAX, and returned rt = 0 with ov set.
C8_WitnessUnrepresentable ==
    /\ instr = "divdeuo"
    /\ is_ok(result)
    /\ rb_of(inputs) # 0
    /\ ra_of(inputs) >= rb_of(inputs)
    /\ rt_of(result) = 0
    /\ overflow_of(result).ov

\* C8 witness, the other side: divdeo returned a non-zero quotient that
\* fits, with ov clear.
C8_WitnessFits ==
    /\ instr = "divdeo"
    /\ is_ok(result)
    /\ rt_of(result) # 0
    /\ ~overflow_of(result).ov

---------------------------------------------------------------------------
(* C9 *)

Div32Families == {"divw", "divwu", "divwe", "divweu"}
Div32Variants == UNION {variants_of(f) : f \in Div32Families}

\* the inputs with ra and rb cut down to their low words
low_words(i) ==
    [i EXCEPT !.ra = Some(as_u32(unwrap(i.ra))),
              !.rb = Some(as_u32(unwrap(i.rb)))]

\* the dividend and the divisor a 32-bit division family takes from the
\* low words a and b
div32_dividend(f, a) ==
    CASE f = "divw" -> as_i32(a)
      [] f = "divwu" -> a
      [] f = "divwe" -> as_i32(a) * Pow2(B32)
      [] f = "divweu" -> a * Pow2(B32)

div32_divisor(f, b) == IF f \in {"divw", "divwe"} THEN as_i32(b) ELSE b

\* the half-width edge cases of a 32-bit division family
div32_edge(f, a, b) ==
    CASE f = "divw" ->
           as_i32(b) = 0
             \/ (as_i32(b) = -1 /\ as_i32(a) = int_min_value(B32))
      [] f = "divwu" -> b = 0
      [] f = "divwe" ->
           as_i32(b) = 0
             \/ ~\E q \in int_min_value(B32)..int_max_value(B32) :
                   is_trunc_quot(q, as_i32(a) * Pow2(B32), as_i32(b))
      [] f = "divweu" ->
           b = 0
             \/ ~\E q \in 0..uint_max_value(B32) :
                   is_trunc_quot(q, a * Pow2(B32), b)

\* C9: every variant of divw, divwu, divwe and divweu depends on ra and
\* rb only through their low 32 bits, returns rt < 2^32, returns rt = 0
\* (with ov set where the variant has an overflow output) in the
\* half-width edge cases, and otherwise returns the 32-bit quotient
\* zero-extended (with ov clear).
C9_Div32 ==
    instr \in Div32Variants =>
        LET f == family_of(instr)
            a == as_u32(ra_of(inputs))
            b == as_u32(rb_of(inputs))
            edge == div32_edge(f, a, b)
            has_ov == is_some(ok_val(result).overflow)
            rt == rt_of(result)
            quot == IF f \in {"divw", "divwe"} THEN as_i32(rt) ELSE rt
        IN  /\ result = get_model_fn(instr, low_words(inputs))
            /\ is_some(inputs.overflow) \/ instr = plain_of(f) =>
                 is_ok(result)
            /\ is_ok(result) =>
                 /\ rt < Pow2(B32)
                 /\ has_ov <=> instr \in {o_of(f), odot_of(f)}
                 /\ edge => rt = 0 /\ (has_ov => overflow_of(result).ov)
                 /\ ~edge =>
                      /\ is_trunc_quot(quot, div32_dividend(f, a),
                                       div32_divisor(f, b))
                      /\ has_ov => ~overflow_of(result).ov

\* C9 witness: divwo ran on operands with non-zero upper words whose low
\* words are i32::MIN and -1, and returned rt = 0 with ov set.
C9_Witness ==
    /\ instr = "divwo"
    /\ is_ok(result)
    /\ ra_of(inputs) >= Pow2(B32)
    /\ rb_of(inputs) >= Pow2(B32)
    /\ as_i32(ra_of(inputs)) = int_min_value(B32)
    /\ as_i32(rb_of(inputs)) = -1
    /\ rt_of(result) = 0
    /\ overflow_of(result).ov

\* C9 witness, zero extension: divw returned a negative 32-bit quotient
\* as a value below 2^32.
C9_WitnessZeroExtended ==
    /\ instr = "divw"
    /\ is_ok(result)
    /\ as_i32(rt_of(result)) < 0
    /\ rt_of(result) < Pow2(B32)

\* C9 witness, extended form: divweo ran on a non-zero divisor whose
\* quotient of (low word << 32) does not fit in 32 bits.
C9_WitnessExtended ==
    /\ instr = "divweo"
    /\ is_ok(result)
    /\ as_i32(rb_of(inputs)) # 0
    /\ div32_edge("divwe", as_u32(ra_of(inputs)), as_u32(rb_of(inputs)))
    /\ rt_of(result) = 0
    /\ overflow_of(result).ov

---------------------------------------------------------------------------
(* C10 *)

\* r is the remainder of a by b with the quotient rounded toward zero
is_trunc_rem(r, a, b) ==
    /\ b # 0
    /\ Abs(r) < Abs(b)
    /\ r > 0 => a > 0
    /\ r < 0 => a < 0
    /\ (a - r) % Abs(b) = 0

ModInstrs == {"modsd", "modud", "modsw", "moduw"}

\* the O variant of the division a modulo opcode corresponds to
div_of(ins) ==
    CASE ins = "modsd" -> "divdo"
      [] ins = "modud" -> "divduo"
      [] ins = "modsw" -> "divwo"
      [] ins = "moduw" -> "divwuo"

\* the dividend or divisor a modulo opcode takes from a register value
mod_operand(ins, x) ==
    CASE ins = "modsd" -> as_i64(x)
      [] ins = "modud" -> x
      [] ins = "modsw" -> as_i32(x)
      [] ins = "moduw" -> as_u32(x)

\* the edge cases of a modulo opcode
mod_edge(ins, a, b) ==
    CASE ins = "modsd" -> b = 0 \/ (b = -1 /\ a = int_min_value(B64))
      [] ins = "modsw" -> b = 0 \/ (b = -1 /\ a = int_min_value(B32))
      [] OTHER -> b = 0

\* C10: modsd, modud, modsw and moduw return Ok with only rt populated (no
\* overflow field) whatever the overflow input; rt is 0 in the edge cases,
\* which are those in which the corresponding division overflows, and the
\* truncating remainder otherwise.
C10_Modulo ==
    instr \in ModInstrs =>
        LET a == mod_operand(instr, ra_of(inputs))
            b == mod_operand(instr, rb_of(inputs))
            edge == mod_edge(instr, a, b)
            division == get_model_fn(div_of(instr), fresh_overflow(inputs))
            rt == rt_of(result)
            rem == IF instr \in {"modsd", "modsw"} THEN as_i64(rt) ELSE rt
        IN  /\ is_ok(result)
            /\ is_some(ok_val(result).rt)
            /\ ok_val(result) =
                 [InstructionOutput_default EXCEPT !.rt = Some(rt)]
            /\ fits_unsigned(rt, B64)
            /\ edge <=> overflow_of(division).ov
            /\ edge => rt = 0
            /\ ~edge => is_trunc_rem(rem, a, b)

\* C10 witness: modsd ran on i64::MIN and -1 with the incoming so, ov and
\* ov32 set, and returned rt = 0 without an overflow field.
C10_Witness ==
    /\ instr = "modsd"
    /\ is_ok(result)
    /\ as_i64(ra_of(inputs)) = int_min_value(B64)
    /\ as_i64(rb_of(inputs)) = -1
    /\ inputs.overflow = Some([so |-> TRUE, ov |-> TRUE, ov32 |-> TRUE])
    /\ ok_val(result).rt = Some(0)
    /\ ok_val(result).overflow = None

\* C10 witness, remainder: modsw returned a negative remainder.
C10_WitnessNegativeRemainder ==
    /\ instr = "modsw"
    /\ is_ok(result)
    /\ as_i64(rt_of(result)) < 0

---------------------------------------------------------------------------
(* C11 *)

\* the low words of the operands, sign-extended
mullw_a(i) == as_i32(ra_of(i))
mullw_b(i) == as_i32(rb_of(i))

\* C11 (as stated): for mullw and mullwo rt is the product a*b cut to 32
\* bits and sign-extended to 64 bits, and ov is set iff the 64-bit
\* product differs from that value.
C11_MullwTruncatedProduct ==
    instr \in {"mullw", "mullwo"} /\ is_ok(result) =>
        LET prod == mullw_a(inputs) * mullw_b(inputs)
        IN  /\ rt_of(result) = as_u64(as_i32(prod))
            /\ instr = "mullwo" =>
                 (overflow_of(result).ov <=> prod # as_i32(prod))

\* C11 (amended): for mullw and mullwo rt is the whole 64-bit product
\* a*b of the sign-extended low words, not cut to 32 bits; ov is set iff
\* that product differs from its low 32 bits sign-extended.
C11_MullwFullProduct ==
    instr \in {"mullw", "mullwo"} =>
        LET prod == mullw_a(inputs) * mullw_b(inputs)
        IN  /\ is_some(inputs.overflow) \/ instr = "mullw" => is_ok(result)
            /\ is_ok(result) =>
                 /\ fits_signed(prod, B64)
                 /\ rt_of(result) = as_u64(prod)
                 /\ result = get_model_fn(instr, low_words(inputs))
                 /\ instr = "mullwo" =>
                      (overflow_of(result).ov <=> prod # as_i32(prod))

\* C11 witness: mullwo ran on low words whose product does not fit in 32
\* bits; ov is set and rt is not a sign-extended 32-bit value.
C11_Witness ==
    /\ instr = "mullwo"
    /\ is_ok(result)
    /\ overflow_of(result).ov
    /\ rt_of(result) # as_u64(as_i32(rt_of(result)))
    /\ rt_of(result) = as_u64(mullw_a(inputs) * mullw_b(inputs))

---------------------------------------------------------------------------
(* C12 *)

\* bits 32..63 of the 64-bit two's-complement value x
high_word(x) == wrap_u(x, B64) \div Pow2(B32)

\* C12: for mulhw and mulhwu the low 32 bits of rt are bits 32..63 of the
\* 64-bit product of the low words of ra and rb (signed for mulhw,
\* unsigned for mulhwu), the upper words of ra and rb do not influence
\* the result, and the output has no overflow field.
C12_MulhwHighWord ==
    instr \in {"mulhw", "mulhwu"} =>
        LET a == IF instr = "mulhw" THEN as_i32(ra_of(inputs))
                 ELSE as_u32(ra_of(inputs))
            b == IF instr = "mulhw" THEN as_i32(rb_of(inputs))
                 ELSE as_u32(rb_of(inputs))
        IN  /\ is_ok(result)
            /\ as_u32(rt_of(result)) = high_word(a * b)
            /\ result = get_model_fn(instr, low_words(inputs))
            /\ ok_val(result).overflow = None

\* C12 witness: mulhw ran on operands with non-zero upper words and a
\* negative product of the low words; the low word of rt is the non-zero
\* high word of that product.
C12_Witness ==
    /\ instr = "mulhw"
    /\ is_ok(result)
    /\ ra_of(inputs) >= Pow2(B32)
    /\ as_i32(ra_of(inputs)) * as_i32(rb_of(inputs)) < 0
    /\ as_u32(rt_of(result)) =
         high_word(as_i32(ra_of(inputs)) * as_i32(rb_of(inputs)))
    /\ as_u32(rt_of(result)) # 0
    /\ ok_val(result).overflow = None

---------------------------------------------------------------------------
(* C13 *)

\* bits 64..127 of the 128-bit two's-complement value x
high_doubleword(x) == wrap_u(x, B128) \div Pow2(B64)

\* the inputs with ra and rb exchanged
swap_ra_rb(i) == [i EXCEPT !.ra = i.rb, !.rb = i.ra]

\* C13: mulhd and mulhdu return the upper 64 bits of the exact 128-bit
\* product of ra and rb (signed resp. unsigned), and exchanging ra and rb
\* does not change the result.
C13_MulhdHighDoubleword ==
    instr \in {"mulhd", "mulhdu"} =>
        LET a == IF instr = "mulhd" THEN as_i64(ra_of(inputs))
                 ELSE ra_of(inputs)
            b == IF instr = "mulhd" THEN as_i64(rb_of(inputs))
                 ELSE rb_of(inputs)
        IN  /\ is_ok(result)
            /\ rt_of(result) = high_doubleword(a * b)
            /\ get_model_fn(instr, swap_ra_rb(inputs)) = result

\* C13 witness: mulhd ran on two different operands of opposite sign and
\* returned the non-zero upper half of their negative product.
C13_Witness ==
    /\ instr = "mulhd"
    /\ is_ok(result)
    /\ ra_of(inputs) # rb_of(inputs)
    /\ as_i64(ra_of(inputs)) < -1
    /\ as_i64(rb_of(inputs)) > 1
    /\ rt_of(result) =
         high_doubleword(as_i64(ra_of(inputs)) * as_i64(rb_of(inputs)))
    /\ rt_of(result) # uint_max_value(B64)

---------------------------------------------------------------------------
(* C14 *)

rc_of(i) == unwrap(i.rc)

\* C14: with ra, rb and rc populated, maddhd returns the upper and maddld
\* the lower 64 bits of the same signed 128-bit value ra*rb + rc, so that
\* maddhd * 2^64 + maddld is that value mod 2^128; maddhdu returns the
\* upper 64 bits of the unsigned 128-bit ra*rb + rc.
C14_MaddHalves ==
    instr \in {"maddhd", "maddld", "maddhdu"} /\ is_some(inputs.rc) =>
        LET signed == as_i64(ra_of(inputs)) * as_i64(rb_of(inputs))
                        + as_i64(rc_of(inputs))
            unsigned == ra_of(inputs) * rb_of(inputs) + rc_of(inputs)
            hi == get_model_fn("maddhd", inputs)
            lo == get_model_fn("maddld", inputs)
        IN  /\ is_ok(result)
            /\ fits_unsigned(rt_of(result), B64)
            /\ instr = "maddhd" => rt_of(result) = high_doubleword(signed)
            /\ instr = "maddld" => rt_of(result) = wrap_u(signed, B64)
            /\ instr \in {"maddhd", "maddld"} =>
                 /\ is_ok(hi) /\ is_ok(lo)
                 /\ rt_of(hi) * Pow2(B64) + rt_of(lo) = wrap_u(signed, B128)
            /\ instr = "maddhdu" =>
                 /\ fits_unsigned(unsigned, B128)
                 /\ rt_of(result) = unsigned \div Pow2(B64)

\* C14 witness: maddhd ran on operands for which adding rc carries out of
\* the lower half of the product, and returned the upper half of the sum.
C14_Witness ==
    /\ instr = "maddhd"
    /\ is_some(inputs.rc)
    /\ is_ok(result)
    /\ as_i64(rc_of(inputs)) > 0
    /\ wrap_u(as_i64(ra_of(inputs)) * as_i64(rb_of(inputs)), B64)
         + rc_of(inputs) >= Pow2(B64)
    /\ rt_of(result) * Pow2(B64) + rt_of(get_model_fn("maddld", inputs)) =
         wrap_u(as_i64(ra_of(inputs)) * as_i64(rb_of(inputs))
                  + as_i64(rc_of(inputs)), B128)

---------------------------------------------------------------------------
(* C15 *)

\* the exact (unbounded) result of addo resp. subfo on operands x and y
add_sub_exact(ins, x, y) == IF ins = "addo" THEN x + y ELSE y - x

\* C15: addo returns rt = (ra + rb) mod 2^64 and subfo rt = (rb - ra) mod
\* 2^64; ov is set iff the operation on the operands as signed 64-bit
\* values leaves the signed 64-bit range; ov32 is set iff the same
\* operation on the low words as signed 32-bit values leaves the signed
\* 32-bit range; so is the incoming so or ov, whatever ov32 is.
C15_AddSubfOverflow ==
    instr \in {"addo", "subfo"} /\ is_some(inputs.overflow) =>
        LET exact64 == add_sub_exact(instr, as_i64(ra_of(inputs)),
                                     as_i64(rb_of(inputs)))
            exact32 == add_sub_exact(instr, as_i32(ra_of(inputs)),
                                     as_i32(rb_of(inputs)))
            unsigned == add_sub_exact(instr, ra_of(inputs), rb_of(inputs))
        IN  /\ is_ok(result)
            /\ rt_of(result) = unsigned % Pow2(B64)
            /\ overflow_of(result).ov <=> ~fits_signed(exact64, B64)
            /\ overflow_of(result).ov32 <=> ~fits_signed(exact32, B32)
            /\ overflow_of(result).so <=>
                 unwrap(inputs.overflow).so \/ overflow_of(result).ov

\* C15 witness: addo came in with so clear and overflowed at 32 bits only;
\* ov32 is set, ov and so are clear.
C15_Witness ==
    /\ instr = "addo"
    /\ is_ok(result)
    /\ ~unwrap(inputs.overflow).so
    /\ overflow_of(result).ov32
    /\ ~overflow_of(result).ov
    /\ ~overflow_of(result).so

\* C15 witness, the other direction: subfo overflowed at 64 bits and not
\* at 32 bits.
C15_WitnessOvOnly ==
    /\ instr = "subfo"
    /\ is_ok(result)
    /\ overflow_of(result).ov
    /\ ~overflow_of(result).ov32
    /\ overflow_of(result).so

---------------------------------------------------------------------------
(* C16 *)

\* the word 1 << n
word_bit(n) == {n}

\* C16: bit n has the mask 1 << (63 - n), with so/ov/ov32 at bits
\* 32/33/44 and ca/ca32 at bits 34/45; from_xer(to_xer(f)) = f for every
\* OverflowFlags and every CarryFlags; the word of one group decodes to
\* all-false in the other group; decoding the OR of both words recovers
\* both records; decoding a word reads the group's bits only.
C16_XerCodec ==
    /\ \A n \in Word64Bits : get_xer_bit_mask(n) = word_bit(63 - n)
    /\ XER_SO_MASK = word_bit(63 - 32)
    /\ XER_OV_MASK = word_bit(63 - 33)
    /\ XER_OV32_MASK = word_bit(63 - 44)
    /\ XER_CA_MASK = word_bit(63 - 34)
    /\ XER_CA32_MASK = word_bit(63 - 45)
    /\ instr = "OverflowFlags::to_xer" =>
         LET both == word_or(result, CarryFlags_to_xer(inputs.carry))
         IN  /\ OverflowFlags_from_xer(result) = inputs.overflow
             /\ CarryFlags_from_xer(result) = [ca |-> FALSE, ca32 |-> FALSE]
             /\ OverflowFlags_from_xer(both) = inputs.overflow
             /\ CarryFlags_from_xer(both) = inputs.carry
    /\ instr = "CarryFlags::to_xer" =>
         LET both == word_or(result, OverflowFlags_to_xer(inputs.overflow))
         IN  /\ CarryFlags_from_xer(result) = inputs.carry
             /\ OverflowFlags_from_xer(result) = OverflowFlags_default
             /\ CarryFlags_from_xer(both) = inputs.carry
             /\ OverflowFlags_from_xer(both) = inputs.overflow
    /\ instr = "from_xer" =>
         /\ result.overflow = [so |-> 31 \in inputs.xer,
                               ov |-> 30 \in inputs.xer,
                               ov32 |-> 19 \in inputs.xer]
         /\ result.carry = [ca |-> 29 \in inputs.xer,
                            ca32 |-> 18 \in inputs.xer]
         /\ OverflowFlags_from_xer(OverflowFlags_to_xer(result.overflow))
              = result.overflow
         /\ CarryFlags_from_xer(CarryFlags_to_xer(result.carry))
              = result.carry

\* C16 witness: an OverflowFlags with all three flags set was encoded next
\* to a CarryFlags with both flags set; the word has exactly the bits of
\* so, ov and ov32.
C16_Witness ==
    /\ instr = "OverflowFlags::to_xer"
    /\ inputs.overflow = [so |-> TRUE, ov |-> TRUE, ov32 |-> TRUE]
    /\ inputs.carry = [ca |-> TRUE, ca32 |-> TRUE]
    /\ result = {31, 30, 19}

---------------------------------------------------------------------------
(* C17 *)

\* C17: from_cr_field(cr, i) with i in 0..7 returns the record of the
\* i-th 4-bit group counted from the most significant one (field 0 is
\* bits 31..28, field 7 bits 3..0) with lt = bit 3, gt = bit 2, eq = bit 1
\* and so = bit 0 of the group; from_cr_field with i >= 8 and from_4_bits
\* with an argument >= 16 fail.
C17_CrFieldDecoding ==
    /\ instr = "from_cr_field" =>
         LET n == inputs.field_index
         IN  /\ n <= 7 =>
                  /\ is_ok(result)
                  /\ ok_val(result) =
                       [lt |-> (31 - 4 * n) \in inputs.cr,
                        gt |-> (30 - 4 * n) \in inputs.cr,
                        eq |-> (29 - 4 * n) \in inputs.cr,
                        so |-> (28 - 4 * n) \in inputs.cr]
             /\ n >= 8 => result = Panic
    /\ instr = "from_4_bits" =>
         LET b == inputs.bits
         IN  /\ b >= 16 => result = Panic
             /\ b < 16 =>
                  /\ is_ok(result)
                  /\ ok_val(result) =
                       [lt |-> b \in {8, 9, 10, 11, 12, 13, 14, 15},
                        gt |-> b \in {4, 5, 6, 7, 12, 13, 14, 15},
                        eq |-> b \in {2, 3, 6, 7, 10, 11, 14, 15},
                        so |-> b \in {1, 3, 5, 7, 9, 11, 13, 15}]

\* C17 witness: field 7 of the cr word whose fields hold 1..8 was decoded:
\* the group is 8, so only lt is set.
C17_Witness ==
    /\ instr = "from_cr_field"
    /\ inputs.cr = CrPattern
    /\ inputs.field_index = 7
    /\ 3 \in inputs.cr
    /\ result = Ok([lt |-> TRUE, gt |-> FALSE, eq |-> FALSE, so |-> FALSE])

\* C17 witness, failure: a field index of 8 was refused.
C17_WitnessFails ==
    /\ instr = "from_cr_field"
    /\ inputs.field_index = 8
    /\ result = Panic

---------------------------------------------------------------------------
(* C18 *)

\* C18: from_signed_int(v, so) returns a record in which exactly one of
\* lt, gt, eq is true (lt iff v < 0, gt iff v > 0, eq iff v = 0) and so
\* is the so argument.
C18_FromSignedInt ==
    instr = "from_signed_int" =>
        /\ DOMAIN result = {"lt", "gt", "eq", "so"}
        /\ Cardinality({f \in {"lt", "gt", "eq"} : result[f]}) = 1
        /\ result.lt <=> inputs.value < 0
        /\ result.gt <=> inputs.value > 0
        /\ result.eq <=> inputs.value = 0
        /\ result.so = inputs.so

\* C18 witness: from_signed_int ran on i64::MIN with so set and returned
\* lt and so only.
C18_Witness ==
    /\ instr = "from_signed_int"
    /\ inputs.value = int_min_value(B64)
    /\ inputs.so
    /\ result = [lt |-> TRUE, gt |-> FALSE, eq |-> FALSE, so |-> TRUE]

---------------------------------------------------------------------------
(* C19 *)

\* the field of the input record a register names
field_of(i, reg) ==
    CASE reg = "Ra" -> i.ra
      [] reg = "Rb" -> i.rb
      [] reg = "Rc" -> i.rc
      [] reg = "Carry" -> i.carry
      [] reg = "Overflow" -> i.overflow

\* the accessor of a register returned what C19 says, on any input record
accessor_result_ok ==
    instr \in InstructionInputRegister =>
        LET field == field_of(inputs, instr)
        IN  /\ is_some(field) => result = Ok(unwrap(field))
            /\ is_none(field) =>
                 /\ result.err = Some(instr)
                 /\ result.val = None
                 /\ ~result.panic

\* C19: each accessor returns the field's value unchanged when the field
\* is present and fails with MissingInput naming exactly its register
\* when it is absent, whatever the other fields hold; no step changes the
\* input record.
C19_Accessors == [](accessor_result_ok) /\ [][inputs' = inputs]_vars

\* C19 witness: try_get_rb ran on a record in which only rb is absent and
\* failed naming Rb.
C19_Witness ==
    /\ instr = "Rb"
    /\ is_none(inputs.rb)
    /\ is_some(inputs.ra) /\ is_some(inputs.rc)
    /\ is_some(inputs.carry) /\ is_some(inputs.overflow)
    /\ result = Err("Rb")

---------------------------------------------------------------------------
(* C20 *)

\* two output records differ in some field; a field present in one and
\* absent in the other differs
outputs_differ(x, y) ==
    \E f \in DOMAIN InstructionOutput_default : x[f] # y[f]

\* C20: for every test case the harness records, model_mismatch is true
\* iff a native result was obtained and differs structurally from the
\* model result; without a native result model_mismatch is false.
C20_ModelMismatch ==
    instr \in TestDivInstr =>
        /\ result.model_mismatch <=>
             /\ is_some(result.native_outputs)
             /\ outputs_differ(unwrap(result.native_outputs),
                               result.model_outputs)
        /\ is_none(result.native_outputs) => ~result.model_mismatch

\* C20 witness: a recorded case whose native result has the same rt as the
\* model result and no overflow field, where the model result has one; it
\* is marked as a mismatch.
C20_Witness ==
    /\ instr = "divdo"
    /\ is_some(result.native_outputs)
    /\ unwrap(result.native_outputs).rt = result.model_outputs.rt
    /\ is_none(unwrap(result.native_outputs).overflow)
    /\ is_some(result.model_outputs.overflow)
    /\ result.model_mismatch

\* C20 witness, no native result: the case is not a mismatch.
C20_WitnessNoNative ==
    /\ instr \in TestDivInstr
    /\ is_none(result.native_outputs)
    /\ ~result.model_mismatch

----------------------------------------------------------------------------
(* C21 *)

recorded_cases == result.test_div_cases

some_case_mismatched ==
    \E n \in 1..Len(recorded_cases) : recorded_cases[n].model_mismatch

\* C21: after every iteration of the harness loop any_model_mismatch is
\* the logical OR of model_mismatch over the test cases recorded so far,
\* so the flag of the final report is true iff some recorded case
\* mismatched; in a run without the native collaborator every
\* native_outputs is absent and the flag is false.
C21_AnyModelMismatch ==
    instr \in {"main", "report"} =>
      /\ result.any_model_mismatch = some_case_mismatched
      /\ inputs.native_instrs = "none" =>
           /\ \A n \in 1..Len(recorded_cases) :
                is_none(recorded_cases[n].native_outputs)
           /\ ~result.any_model_mismatch

\* a finished run whose flag is set by one case in the middle although the
\* last case agrees
C21_Witness ==
    /\ instr = "report"
    /\ inputs.native_instrs = "differs_once"
    /\ result.any_model_mismatch
    /\ ~recorded_cases[Len(recorded_cases)].model_mismatch
    /\ Cardinality({n \in 1..Len(recorded_cases) :
                      recorded_cases[n].model_mismatch}) = 1

\* a finished run without the native collaborator
C21_WitnessNoNative ==
    /\ instr = "report"
    /\ inputs.native_instrs = "none"
    /\ Len(recorded_cases) > 0
    /\ ~result.any_model_mismatch

----------------------------------------------------------------------------
(* C22 *)

\* the values of the domain, as a set
harness_domain == {TEST_VALUES[k] : k \in 1..Len(TEST_VALUES)}

cases_per_instr == Len(TEST_VALUES) * Len(TEST_VALUES)

\* the opcode and operands the n-th case of the report must have
expected_instr(n) == TestDivInstr_VALUES[((n - 1) \div cases_per_instr) + 1]

expected_dividend(n) ==
    TEST_VALUES[(((n - 1) \div Len(TEST_VALUES)) % Len(TEST_VALUES)) + 1]

expected_divisor(n) == TEST_VALUES[((n - 1) % Len(TEST_VALUES)) + 1]

report_is_exact ==
    /\ Len(recorded_cases) = Len(TestDivInstr_VALUES) * cases_per_instr
    /\ \A n \in 1..Len(recorded_cases) :
         /\ recorded_cases[n].instr = expected_instr(n)
         /\ recorded_cases[n].inputs.ra = Some(expected_dividend(n))
         /\ recorded_cases[n].inputs.rb = Some(expected_divisor(n))
    /\ \A ins \in TestDivInstr :
         \A dividend \in harness_domain :
           \A divisor \in harness_domain :
             Cardinality({n \in 1..Len(recorded_cases) :
                            /\ recorded_cases[n].instr = ins
                            /\ recorded_cases[n].inputs.ra = Some(dividend)
                            /\ recorded_cases[n].inputs.rb = Some(divisor)})
               = 1

\* C22: the harness run terminates and its report holds exactly one test
\* case per opcode and pair of domain values, |TEST_VALUES|^2 per opcode,
\* none missing and none duplicated, in lexicographic order (opcode in
\* registry order, then dividend, then divisor, both in domain order),
\* the same on every run.
C22_ReportComplete ==
    /\ <>(instr = "report")
    /\ [](instr = "report" => report_is_exact)

\* a finished run: the last case is the last opcode on the last pair
C22_Witness ==
    /\ instr = "report"
    /\ Len(recorded_cases) = Len(TestDivInstr_VALUES) * cases_per_instr
    /\ recorded_cases[Len(recorded_cases)].instr =
         TestDivInstr_VALUES[Len(TestDivInstr_VALUES)]
    /\ recorded_cases[Len(TEST_VALUES) + 1].inputs.ra = Some(TEST_VALUES[2])
    /\ recorded_cases[Len(TEST_VALUES) + 1].inputs.rb = Some(TEST_VALUES[1])

----------------------------------------------------------------------------
(* C23 *)

fully_populated(i) ==
    /\ is_some(i.ra)
    /\ is_some(i.rb)
    /\ is_some(i.rc)
    /\ is_some(i.carry)
    /\ is_some(i.overflow)

\* C23: every model function is total on fully populated inputs: for
\* every opcode and every ra, rb, rc and flags it returns Ok.  No
\* division or remainder is reached with a zero divisor or with the
\* minimum over -1, no product or sum leaves its type, and no variant
\* combinator finds rt, overflow or cr0 unset.
C23_ModelsTotal ==
    (instr \in Instr /\ fully_populated(inputs)) =>
      /\ is_ok(result)
      /\ ~result.panic
      /\ is_none(result.err)

\* a divide-extended dot variant on the minimum over -1, and a
\* multiply-add on the largest operands: both return a record
C23_Witness ==
    /\ instr = "divdeo_"
    /\ fully_populated(inputs)
    /\ inputs.ra = Some(Pow2(B64 - 1))
    /\ inputs.rb = Some(uint_max_value(B64))
    /\ is_ok(result)

C23_WitnessMadd ==
    /\ instr = "maddhdu"
    /\ fully_populated(inputs)
    /\ inputs.ra = Some(uint_max_value(B64))
    /\ inputs.rb = Some(uint_max_value(B64))
    /\ inputs.rc = Some(uint_max_value(B64))
    /\ is_ok(result)

C23_WitnessZeroDivisor ==
    /\ instr = "modsw"
    /\ fully_populated(inputs)
    /\ inputs.rb = Some(0)
    /\ is_ok(result)

----------------------------------------------------------------------------
(* C24 *)

boundary_values ==
    {0, 1, 2, uint_max_value(B64), uint_max_value(B64) - 1,
     int_max_value(B64), int_max_value(B64) - 1,
     Pow2(B64 - 1), Pow2(B64 - 1) + 1}

pattern_values ==
    {UpperPattern * Pow2(B32) + low :
       low \in {0, int_max_value(B32), Pow2(B32 - 1), uint_max_value(B32)}}

\* the values the claim names that the loops never take
missing_values == (boundary_values \cup pattern_values) \ harness_domain

\* C24: the harness value domain for register inputs contains at least
\* 0, 1, 2, u64::MAX, u64::MAX - 1, i64::MAX, i64::MAX - 1, i64::MIN and
\* i64::MIN + 1, and the values whose upper half is the pattern
\* 0x1234_5678 and whose lower half is 0, i32::MAX, i32::MIN and u32::MAX.
C24_DomainContains ==
    instr \in {"main", "report"} =>
      (boundary_values \cup pattern_values) \subseteq harness_domain

\* what the domain does contain: every named value but i64::MAX - 1 and
\* i64::MIN + 1
C24_DomainLacksTwo ==
    instr \in {"main", "report"} =>
      missing_values = {int_max_value(B64) - 1, Pow2(B64 - 1) + 1}

----------------------------------------------------------------------------
(* C25 *)

OdotVariants == {odot_of(f) : f \in OvFamilies}

\* C25: an O-dot variant returns the rt and the overflow record of the O
\* variant on the same input, and cr0 = from_signed(rt as signed 64-bit,
\* so) with so the summary overflow it returns; so cr0.so = overflow.so.
C25_OdotVariant ==
    \A f \in OvFamilies :
        instr = odot_of(f) /\ populated(inputs) =>
            LET o == get_model_fn(o_of(f), inputs)
            IN  /\ is_ok(result)
                /\ is_ok(o)
                /\ ok_val(result).rt = ok_val(o).rt
                /\ ok_val(result).overflow = ok_val(o).overflow
                /\ is_some(ok_val(result).overflow)
                /\ is_some(ok_val(result).cr0)
                /\ cr0_of(result).so = overflow_of(result).so
                /\ cr0_of(result).lt = (as_i64(rt_of(result)) < 0)
                /\ cr0_of(result).gt = (as_i64(rt_of(result)) > 0)
                /\ cr0_of(result).eq = (as_i64(rt_of(result)) = 0)

\* an O-dot call that came in with so clear, overflowed, and reports so in
\* both cr0 and the overflow record
C25_Witness ==
    /\ instr \in OdotVariants
    /\ populated(inputs)
    /\ ~unwrap(inputs.overflow).so
    /\ is_ok(result)
    /\ overflow_of(result).ov
    /\ cr0_of(result).so
    /\ overflow_of(result).so

\* an O-dot call that came in with so set, did not overflow, and returns a
\* negative rt: cr0 is lt with so set
C25_WitnessIncomingSo ==
    /\ instr \in OdotVariants
    /\ populated(inputs)
    /\ unwrap(inputs.overflow).so
    /\ is_ok(result)
    /\ ~overflow_of(result).ov
    /\ cr0_of(result).so
    /\ cr0_of(result).lt

----------------------------------------------------------------------------
(* C26 *)

CrFamilies == {"mulhw", "mulhwu", "mulhd", "mulhdu"}

cr_width(f) == IF f \in {"mulhw", "mulhwu"} THEN B32 ELSE B64

\* C26: mulhw., mulhwu., mulhd. and mulhdu. return the rt of their base
\* function and cr0 = from_signed(rt, incoming so): cr0.so is the caller's
\* so for every ra and rb, there is no overflow field, and the call fails
\* with MissingInput naming Overflow when the incoming overflow is absent.
C26_CrDotVariant ==
    \A f \in CrFamilies :
        (instr = dot_of(f) /\ is_some(inputs.ra) /\ is_some(inputs.rb)) =>
            LET base == get_model_fn(f, inputs)
            IN  /\ is_ok(base)
                /\ is_none(inputs.overflow) =>
                     result = Err("Overflow")
                /\ is_some(inputs.overflow) =>
                     /\ is_ok(result)
                     /\ ok_val(result).rt = ok_val(base).rt
                     /\ is_none(ok_val(result).overflow)
                     /\ is_some(ok_val(result).cr0)
                     /\ cr0_of(result).so = unwrap(inputs.overflow).so
                     /\ LET v == wrap_i(rt_of(result), cr_width(f))
                        IN  /\ cr0_of(result).lt = (v < 0)
                            /\ cr0_of(result).gt = (v > 0)
                            /\ cr0_of(result).eq = (v = 0)

\* a negative high word with the caller's so set
C26_Witness ==
    /\ instr \in {dot_of(f) : f \in CrFamilies}
    /\ is_some(inputs.overflow)
    /\ unwrap(inputs.overflow).so
    /\ is_ok(result)
    /\ cr0_of(result) = [lt |-> TRUE, gt |-> FALSE, eq |-> FALSE,
                         so |-> TRUE]

\* the same call without an incoming overflow
C26_WitnessMissing ==
    /\ instr \in {dot_of(f) : f \in CrFamilies}
    /\ is_some(inputs.ra)
    /\ is_some(inputs.rb)
    /\ is_none(inputs.overflow)
    /\ result = Err("Overflow")

----------------------------------------------------------------------------
(* C27 *)

Div32DotVariants ==
    UNION {{dot_of(f), odot_of(f)} : f \in Div32Families}

\* C27: for the dot and O-dot variants of the 32-bit divisions (divw,
\* divwu, divwe, divweu) cr0.lt is false for every input: cr0 compares
\* the zero-extended rt as a signed 64-bit value, so a negative 32-bit
\* quotient gives gt, never lt.
C27_Div32DotNeverLt ==
    (instr \in Div32DotVariants /\ populated(inputs)) =>
        /\ is_ok(result)
        /\ is_some(ok_val(result).cr0)
        /\ ~cr0_of(result).lt
        /\ cr0_of(result).gt = (rt_of(result) # 0)
        /\ rt_of(result) < Pow2(B32)

\* a signed 32-bit division with a negative quotient: gt is set
C27_Witness ==
    /\ instr \in {"divw_", "divwo_"}
    /\ populated(inputs)
    /\ is_ok(result)
    /\ as_i32(rt_of(result)) < 0
    /\ cr0_of(result).gt
    /\ ~cr0_of(result).lt

----------------------------------------------------------------------------
(* C28 *)

upper_word(x) == x \div Pow2(B32)

lower_word(x) == x % Pow2(B32)

\* C28: for mulhw and mulhwu the upper 32 bits of rt equal its lower 32
\* bits for every ra and rb, so rt as a signed 64-bit value is negative,
\* zero or positive exactly when its low word is.
C28_MulhwReplicated ==
    (instr \in {"mulhw", "mulhwu"} /\ is_some(inputs.ra)
       /\ is_some(inputs.rb)) =>
        /\ is_ok(result)
        /\ upper_word(rt_of(result)) = lower_word(rt_of(result))
        /\ (as_i64(rt_of(result)) < 0) = (as_i32(rt_of(result)) < 0)
        /\ (as_i64(rt_of(result)) = 0) = (as_i32(rt_of(result)) = 0)
        /\ (as_i64(rt_of(result)) > 0) = (as_i32(rt_of(result)) > 0)

\* a negative high word, copied into the upper half
C28_Witness ==
    /\ instr = "mulhw"
    /\ is_ok(result)
    /\ as_i32(rt_of(result)) < 0
    /\ upper_word(rt_of(result)) = lower_word(rt_of(result))
    /\ upper_word(rt_of(result)) >= Pow2(B32 - 1)

\* an unsigned high word with its top bit clear
C28_WitnessUnsigned ==
    /\ instr = "mulhwu"
    /\ is_ok(result)
    /\ lower_word(rt_of(result)) > 0
    /\ lower_word(rt_of(result)) < Pow2(B32 - 1)
    /\ upper_word(rt_of(result)) = lower_word(rt_of(result))

----------------------------------------------------------------------------
(* C29 *)

\* the remainder of the signed division that rounds toward zero
signed_remainder(a, b) ==
    IF a < 0 THEN -(Abs(a) % Abs(b)) ELSE Abs(a) % Abs(b)

\* C29: modsw sign-extends its 32-bit remainder into the 64-bit rt (a
\* negative remainder gives an rt whose upper 32 bits are all set): for
\* every input rt is the signed 32-bit remainder converted to a signed
\* 64-bit value.  moduw, divw and divwu always give rt < 2^32.
C29_ModswSignExtended ==
    /\ (instr = "modsw" /\ is_some(inputs.ra) /\ is_some(inputs.rb)) =>
         LET a == as_i32(ra_of(inputs))
             b == as_i32(rb_of(inputs))
             rem == IF mod_edge("modsw", a, b) THEN 0
                    ELSE signed_remainder(a, b)
         IN  /\ is_ok(result)
             /\ as_i64(rt_of(result)) = rem
             /\ rem < 0 =>
                  upper_word(rt_of(result)) = uint_max_value(B32)
             /\ rem >= 0 => upper_word(rt_of(result)) = 0
    /\ (instr \in {"moduw", "divw", "divwu"} /\ is_some(inputs.ra)
          /\ is_some(inputs.rb)) =>
         /\ is_ok(result)
         /\ rt_of(result) < Pow2(B32)

\* a negative remainder: the upper half of rt is all ones
C29_Witness ==
    /\ instr = "modsw"
    /\ is_ok(result)
    /\ as_i64(rt_of(result)) < 0
    /\ upper_word(rt_of(result)) = uint_max_value(B32)
    /\ rt_of(result) >= Pow2(B32)

\* a signed 32-bit division with a negative quotient stays below 2^32
C29_WitnessDivw ==
    /\ instr = "divw"
    /\ is_ok(result)
    /\ as_i32(rt_of(result)) < 0
    /\ rt_of(result) < Pow2(B32)

----------------------------------------------------------------------------
(* C30 *)

\* q is floor(a * 2^width / b) for b > 0
is_extended_quot(q, a, b, width) ==
    /\ q * b <= a * Pow2(width)
    /\ a * Pow2(width) < (q + 1) * b

\* the unsigned operand a divide-extended opcode takes from a register
extended_operand(ins, x) ==
    IF ins \in variants_of("divweu") THEN as_u32(x) ELSE x

extended_width(ins) ==
    IF ins \in variants_of("divweu") THEN B32 ELSE B64

\* C30: divdeuo and divdeu overflow (rt = 0, this operation's overflow
\* set) iff ra >= rb as unsigned 64-bit values, which includes rb = 0;
\* when ra < rb rt is the exact quotient floor(ra * 2^64 / rb) and the
\* overflow is clear.  The same holds at half width for divweuo on the
\* low 32 bits of ra and rb.
C30_DivdeuOverflowIffGe ==
    (instr \in {"divdeuo", "divdeu", "divweuo", "divweu"}
       /\ is_some(inputs.ra) /\ is_some(inputs.rb)) =>
        LET a == extended_operand(instr, ra_of(inputs))
            b == extended_operand(instr, rb_of(inputs))
        IN  /\ instr \in {"divdeu", "divweu"} \/ is_some(inputs.overflow) =>
                 /\ is_ok(result)
                 /\ a >= b => rt_of(result) = 0
                 /\ a < b =>
                      is_extended_quot(rt_of(result), a, b,
                                       extended_width(instr))
            /\ (instr \in {"divdeuo", "divweuo"}
                  /\ is_some(inputs.overflow)) =>
                 /\ overflow_of(result).ov = (a >= b)
                 /\ overflow_of(result).ov32 = (a >= b)

\* ra < rb, both nonzero: a nonzero exact quotient without overflow
C30_Witness ==
    /\ instr = "divdeuo"
    /\ is_some(inputs.overflow)
    /\ is_ok(result)
    /\ ra_of(inputs) > 1
    /\ ra_of(inputs) < rb_of(inputs)
    /\ rt_of(result) > 0
    /\ ~overflow_of(result).ov

\* ra >= rb > 0: the quotient does not fit
C30_WitnessOverflow ==
    /\ instr = "divdeuo"
    /\ is_some(inputs.overflow)
    /\ is_ok(result)
    /\ rb_of(inputs) > 0
    /\ ra_of(inputs) >= rb_of(inputs)
    /\ rt_of(result) = 0
    /\ overflow_of(result).ov

\* half width: the low words decide although the registers compare the
\* other way
C30_WitnessHalfWidth ==
    /\ instr = "divweuo"
    /\ is_some(inputs.overflow)
    /\ is_ok(result)
    /\ as_u32(ra_of(inputs)) < as_u32(rb_of(inputs))
    /\ ra_of(inputs) > rb_of(inputs)
    /\ rt_of(result) > 0
    /\ ~overflow_of(result).ov

===========================================================================
